---- MODULE Spec2Model ----
(***************************************************************************)
(* Link-health checker of the bookmark manager: the client service         *)
(* (services/linkValidator.ts) with its per-link check chain               *)
(* (server API -> HEAD -> GET), its localStorage cache and its batch       *)
(* scheduler.  One step of the model is one task of the browser's event    *)
(* loop: everything the code runs between two suspension points that wait  *)
(* for the network, a timer or the user.                                   *)
(***************************************************************************)
EXTENDS Integers, Sequences, FiniteSets, TLC

(* ------------------------------ bounds --------------------------------- *)

\* Largest number of bookmarks handed to one batchCheckLinks call.
MaxTargets == 3

\* Largest number of workers one run starts.
MaxPool == 2

\* How many times Date.now() may move forward during one run.
MaxTick == 1

\* cacheTtlMs passed by the caller, in clock ticks.
TtlTicks == 1

\* Largest number of bookmarks of a call that further calls follow.
MaxRunTargets == 2

(* ------------------------- program constants --------------------------- *)

DefaultCheckTimeoutMs == 8000

DefaultBatchTimeoutMs == 5000

ApiSubTimeoutCap == 4500

DefaultConcurrency == 20

\* A timeoutMs the caller passes explicitly, below the API sub-timeout cap.
ShortTimeoutMs == 3000

Min(a, b) == IF a <= b THEN a ELSE b

Max(a, b) == IF a >= b THEN a ELSE b

\* options?.field ?? dflt : an option is undefined when the record lacks it.
OptOr(options, field, dflt) ==
    IF field \in DOMAIN options THEN options[field] ELSE dflt

(* ------------------------------- URLs ---------------------------------- *)
\* A raw URL string is [pad, scheme, host, path]: pad = surrounded by white
\* space; scheme = "" when the string names no scheme; host = the text after
\* the scheme ("" = nothing); path = "" or "/".

GoodHosts == {"a.example", "b.example"}

BadHost == "not a url!!"

RawUrls ==
    { [pad |-> p, scheme |-> s, host |-> h, path |-> q] :
        p \in BOOLEAN, s \in {"", "http:", "https:", "ftp:"},
        h \in GoodHosts \cup {"", BadHost}, q \in {"", "/"} }
    \ ( [pad : BOOLEAN, scheme : {"http:", "https:", "ftp:"},
         host : {"", BadHost}, path : {"", "/"}]
        \cup [pad : BOOLEAN, scheme : {""}, host : {""}, path : {"/"}] )

\* JavaScript's null (and the empty string: both are falsy).
null == [pad |-> FALSE, scheme |-> "", host |-> "", path |-> ""]

\* String.prototype.trim
Trim(u) == [u EXCEPT !.pad = FALSE]

\* A host followed by an explicit port.
PortHosts == {"c.example:8080"}

\* new URL(s) throws: no scheme (a relative URL without a base) or no valid host.
UrlThrows(s) == s.scheme = "" \/ s.host \notin GoodHosts \cup PortHosts

\* new URL(s).toString(): the serialised URL has the path "/".
UrlToString(s) == [pad |-> FALSE, scheme |-> s.scheme, host |-> s.host, path |-> "/"]

\* `https://${trimmed}` for a string without a scheme.
PrefixHttps(s) == [s EXCEPT !.scheme = "https:"]

\* Mutant of normalizeUrl: a URL of any scheme is accepted.
normalizeUrl_acceptsAnyScheme(rawUrl) ==
    LET trimmed == Trim(rawUrl) IN
    IF trimmed = null THEN null
    ELSE IF ~UrlThrows(trimmed) THEN UrlToString(trimmed)
    ELSE IF ~UrlThrows(PrefixHttps(trimmed)) THEN UrlToString(PrefixHttps(trimmed))
    ELSE null

\* trim, parse, keep http(s) only; a string that does not parse is parsed
\* again behind "https://".
normalizeUrl(rawUrl) ==
    LET trimmed == Trim(rawUrl) IN
    IF trimmed = null THEN null
    ELSE IF ~UrlThrows(trimmed)
         THEN IF trimmed.scheme # "http:" /\ trimmed.scheme # "https:"
              THEN null
              ELSE UrlToString(trimmed)
    ELSE IF ~UrlThrows(PrefixHttps(trimmed)) THEN UrlToString(PrefixHttps(trimmed))
    ELSE null

(* ------------------------- classification ------------------------------ *)

HttpStatuses == {100, 200, 204, 301, 399, 400, 401, 403, 404, 405, 410, 429, 499, 500, 503}

\* What fetch resolves with: an opaque response has status 0.
Responses ==
    { [type |-> "basic", status |-> s] : s \in HttpStatuses }
    \cup { [type |-> "opaque", status |-> 0] }

classifyResponse(resp) ==
    IF resp.type = "opaque" THEN "unknown"
    ELSE IF resp.status = 404 \/ resp.status = 410 THEN "dead"
    ELSE IF resp.status = 401 \/ resp.status = 403 THEN "dead"
    ELSE IF resp.status >= 500 THEN "dead"
    ELSE IF resp.status >= 200 /\ resp.status < 400 THEN "ok"
    ELSE "unknown"

NoResponse == [type |-> "error", status |-> 0]

\* How a fetch of the target settles when no signal ends it: a response, or
\* a rejection with a TypeError (network failure, CORS refusal).
FetchOutcomes ==
    { [kind |-> "response", resp |-> r] : r \in Responses }
    \cup { [kind |-> "error", resp |-> NoResponse] }

\* fetch rejects with an AbortError: its signal fired.
FetchAborted == [kind |-> "abort", resp |-> NoResponse]

\* How the call of /api/link-health settles when no signal ends it:
\* resp.ok, and what data?.status holds after resp.json().catch(() => null).
ApiOutcomes ==
    { [kind |-> "response", ok |-> o, body |-> b] :
        o \in BOOLEAN, b \in {"ok", "dead", "unknown", "garbage", "unparsable"} }
    \cup { [kind |-> "error", ok |-> FALSE, body |-> "unparsable"] }

ApiAborted == [kind |-> "abort", ok |-> FALSE, body |-> "unparsable"]

\* Mutant of ApiStatus: whatever status the body names is returned.
ApiStatus_anyStatus(outcome) ==
    IF outcome.kind = "error" \/ outcome.kind = "abort" THEN "null"
    ELSE IF ~outcome.ok THEN "null"
    ELSE IF outcome.body \in {"ok", "dead", "unknown"} THEN outcome.body
    ELSE "null"

\* checkLinkHealthViaApi's value once its fetch has settled ("null" = null).
ApiStatus(outcome) ==
    IF outcome.kind = "error" \/ outcome.kind = "abort" THEN "null"
    ELSE IF ~outcome.ok THEN "null"
    ELSE IF outcome.body = "ok" \/ outcome.body = "dead" THEN outcome.body
    ELSE "null"

(* --------------------- one link check: the chain ----------------------- *)
\* A check in progress is [phase, result]: phase "api", "head" or "get" names
\* the fetch it waits for; "resolved" means its promise is settled with
\* result and the awaiting code has not run yet.

Resolved(r) == [phase |-> "resolved", result |-> r]

InFlight(p) == [phase |-> p, result |-> "none"]

NoCheck == [phase |-> "idle", result |-> "none"]

InFlightPhases == {"api", "head", "get"}

\* Mutant of AfterGet: the classification is returned as it is.
AfterGet_returnsClassified(outcome) ==
    IF outcome.kind = "response"
    THEN Resolved(classifyResponse(outcome.resp))
    ELSE Resolved("dead")

\* The GET attempt of checkLinkHealth and what it returns.
AfterGet(outcome) ==
    IF outcome.kind = "response"
    THEN LET classified == classifyResponse(outcome.resp) IN
         IF classified # "unknown" THEN Resolved(classified) ELSE Resolved("dead")
    ELSE Resolved("dead")

\* Mutant of AfterHead: every unclassified HEAD response goes on to GET.
AfterHead_getOnAnyUnknown(outcome) ==
    IF outcome.kind = "response"
    THEN LET classified == classifyResponse(outcome.resp) IN
         IF classified # "unknown" THEN Resolved(classified)
         ELSE InFlight("get")
    ELSE IF outcome.kind = "abort" THEN Resolved("dead")
    ELSE InFlight("get")

\* Mutant of AfterHead: a 405 is not retried with GET.
AfterHead_no405Retry(outcome) ==
    IF outcome.kind = "response"
    THEN LET classified == classifyResponse(outcome.resp) IN
         IF classified # "unknown" THEN Resolved(classified)
         ELSE Resolved("dead")
    ELSE IF outcome.kind = "abort" THEN Resolved("dead")
    ELSE InFlight("get")

\* The HEAD attempt: a definite classification is returned, 405 and any
\* failure that is no AbortError go on to GET, the rest is "dead".
AfterHead(outcome) ==
    IF outcome.kind = "response"
    THEN LET classified == classifyResponse(outcome.resp) IN
         IF classified # "unknown" THEN Resolved(classified)
         ELSE IF outcome.resp.status = 405 THEN InFlight("get")
         ELSE Resolved("dead")
    ELSE IF outcome.kind = "abort" THEN Resolved("dead")
    ELSE InFlight("get")

\* Mutant of AfterApi: without a status from the server the check gives up.
AfterApi_noFallback(apiStatus, signalAborted) ==
    IF apiStatus # "null" THEN Resolved(apiStatus) ELSE Resolved("dead")

\* After checkLinkHealthViaApi returned apiStatus: a definite status is
\* returned; otherwise HEAD is fetched, and fetch rejects at once with an
\* AbortError when the check's signal has fired already.
AfterApi(apiStatus, signalAborted) ==
    IF apiStatus # "null" THEN Resolved(apiStatus)
    ELSE IF signalAborted THEN AfterHead(FetchAborted)
    ELSE InFlight("head")

\* checkLinkHealthViaApi up to its fetch.
BeginApi(normalized, signalAborted) ==
    IF normalizeUrl(normalized) = null THEN AfterApi("null", signalAborted)
    ELSE IF signalAborted THEN AfterApi(ApiStatus(ApiAborted), signalAborted)
    ELSE InFlight("api")

\* checkLinkHealth up to its first fetch.
BeginCheck(rawUrl, signalAborted) ==
    LET normalized == normalizeUrl(rawUrl) IN
    IF normalized = null THEN Resolved("dead")
    ELSE BeginApi(normalized, signalAborted)

\* Mutant of AbortInFlight: a HEAD that was cut short is retried with GET like
\* any other failed HEAD.
AbortInFlight_headRetried(p) ==
    IF p = "api" THEN AfterApi(ApiStatus(ApiAborted), TRUE)
    ELSE IF p = "head" THEN InFlight("get")
    ELSE AfterGet(FetchAborted)

\* Mutant of AbortInFlight: the API call alone listens to the signal, and the
\* check goes on to HEAD when it is cut short.
AbortInFlight_apiCallOnly(p) ==
    IF p = "api" THEN AfterApi(ApiStatus(ApiAborted), FALSE)
    ELSE IF p = "head" THEN AfterHead(FetchAborted)
    ELSE AfterGet(FetchAborted)

\* The check's controller aborts (its timer, or the caller's signal through
\* mergeSignals) while the check waits in phase p.
AbortInFlight(p) ==
    IF p = "api" THEN AfterApi(ApiStatus(ApiAborted), TRUE)
    ELSE IF p = "head" THEN AfterHead(FetchAborted)
    ELSE AfterGet(FetchAborted)

\* mergeSignals: the merged signal is aborted from the start when the
\* caller's signal is; without a caller's signal it is the controller's own.
mergeSignals(signal) == signal = "aborted"

(* ------------------------------ cache ---------------------------------- *)
\* localStorage["linkHealthCache:v2"] is [raw, map]: raw says whether the item
\* is missing, unparsable or a JSON object; map is that object, a function
\* from normalized URLs to [status, checkedAt].

EmptyMap == <<>>

readCache(stored) == IF stored.raw = "json" THEN stored.map ELSE EmptyMap

\* Mutant of writeCache: the map is merged into what the store holds by now.
writeCache_mergesStored(stored, cacheMap, setItemThrows) ==
    IF setItemThrows THEN stored
    ELSE [raw |-> "json", map |-> cacheMap @@ readCache(stored)]

\* setItem may throw (quota): the store then keeps what it held.
writeCache(stored, cacheMap, setItemThrows) ==
    IF setItemThrows THEN stored ELSE [raw |-> "json", map |-> cacheMap]

\* No attempt of that kind has ended.
NoOutcome == [kind |-> "none"]

(* --------------------- server: GET /api/link-health -------------------- *)
\* A query parameter is a string, or Absent when the request does not name it.

Absent == "(absent)"

\* The url parameter when the request does not name it.
AbsentUrl == [pad |-> FALSE, scheme |-> "", host |-> Absent, path |-> ""]

ServerDefaultTimeoutMs == 6000

TcpTimeoutCap == 3000

\* String(rawUrl || '') : an absent url parameter is the empty string.
StringOrEmpty(param) == IF param = AbsentUrl THEN null ELSE param

\* The server's normalizeUrl.
ServerNormalizeUrl(rawUrl) ==
    LET trimmed == Trim(StringOrEmpty(rawUrl)) IN
    IF trimmed = null THEN null
    ELSE IF ~UrlThrows(trimmed)
         THEN IF trimmed.scheme # "http:" /\ trimmed.scheme # "https:"
              THEN null
              ELSE UrlToString(trimmed)
    ELSE IF ~UrlThrows(PrefixHttps(trimmed)) THEN UrlToString(PrefixHttps(trimmed))
    ELSE null

\* Mutant of classifyStatus: 401 and 403 are left unclassified.
classifyStatus_authUnknown(status) ==
    IF status = 404 \/ status = 410 THEN "dead"
    ELSE IF status >= 500 THEN "dead"
    ELSE IF status >= 200 /\ status < 400 THEN "ok"
    ELSE "unknown"

classifyStatus(status) ==
    IF status = 404 \/ status = 410 THEN "dead"
    ELSE IF status = 401 \/ status = 403 THEN "dead"
    ELSE IF status >= 500 THEN "dead"
    ELSE IF status >= 200 /\ status < 400 THEN "ok"
    ELSE "unknown"

\* The mode parameter as the client may spell it.
ModeParams == {Absent, "auto", "http", "tcp", "ping", "TCP", "Http", "fast"}

\* String.prototype.toLowerCase on those spellings.
toLowerCase(str) ==
    IF str = "TCP" THEN "tcp" ELSE IF str = "Http" THEN "http" ELSE str

\* (req.query.mode || 'auto').toLowerCase()
RequestedMode(param) == toLowerCase(IF param = Absent THEN "auto" ELSE param)

\* The timeoutMs parameter is [kind, n]: absent, the empty string, a text
\* that is no number, the numeral of the integer n, or "Infinity".
TimeoutNumerals == {0 - 5, 0, 1000, 3000, 3001, 4500, 10000}

TimeoutParams ==
    { [kind |-> k, n |-> 0] : k \in {"absent", "empty", "text", "infinity"} }
    \cup { [kind |-> "numeral", n |-> n] : n \in TimeoutNumerals }

\* Number(req.query.timeoutMs || '') as [kind, n]: NaN, Infinity or the number n.
ToNumber(param) ==
    IF param.kind \in {"absent", "empty"} THEN [kind |-> "number", n |-> 0]
    ELSE IF param.kind = "text" THEN [kind |-> "NaN", n |-> 0]
    ELSE IF param.kind = "infinity" THEN [kind |-> "Infinity", n |-> 0]
    ELSE [kind |-> "number", n |-> param.n]

\* Number.isFinite(timeoutMsParam) && timeoutMsParam > 0 ? timeoutMsParam : 6000
EffectiveTimeout(param) ==
    LET timeoutMsParam == ToNumber(param) IN
    IF timeoutMsParam.kind = "number" /\ timeoutMsParam.n > 0
    THEN timeoutMsParam.n
    ELSE ServerDefaultTimeoutMs

\* Mutant of TcpTimeout: the probe gets the whole effective timeout.
TcpTimeout_uncapped(effective) == effective

\* Math.min(timeoutMs, 3000)
TcpTimeout(effective) == Min(effective, TcpTimeoutCap)

\* How a fetch of the server settles when its signal does not end it.
ServerFetchOutcomes ==
    { [kind |-> "response", status |-> st] : st \in HttpStatuses }
    \cup { [kind |-> "error", status |-> 0] }

ServerFetchAborted == [kind |-> "abort", status |-> 0]

\* A fetch outcome with what classifyStatus made of the response.
ServerClassified(outcome) ==
    [kind |-> outcome.kind, status |-> outcome.status,
     classified |-> IF outcome.kind = "response"
                    THEN classifyStatus(outcome.status) ELSE "none"]

NoResult == [status |-> "none", httpStatus |-> 0, error |-> ""]

\* Mutant of ServerAfterGet: the outer catch makes every failure "dead".
ServerAfterGet_abortDead(outcome) ==
    IF outcome.kind = "response"
    THEN [status |-> classifyStatus(outcome.status), httpStatus |-> outcome.status,
          error |-> ""]
    ELSE [status |-> "dead", httpStatus |-> 0, error |-> "fetch failed"]

\* The server's checkLinkHealth from its GET fetch on: the classification of
\* the response; the outer catch turns an AbortError into unknown/timeout
\* and any other failure into dead.
ServerAfterGet(outcome) ==
    IF outcome.kind = "response"
    THEN [status |-> classifyStatus(outcome.status), httpStatus |-> outcome.status,
          error |-> ""]
    ELSE IF outcome.kind = "abort"
    THEN [status |-> "unknown", httpStatus |-> 0, error |-> "timeout"]
    ELSE [status |-> "dead", httpStatus |-> 0, error |-> "fetch failed"]

\* The server's checkLinkHealth once its HEAD fetch has settled: [get] says
\* whether a GET request goes out, [result] is the value returned otherwise.
\* The inner catch calls fetch for GET after every HEAD failure; with the
\* signal aborted already that fetch rejects at once, without a request.
ServerAfterHead(outcome) ==
    IF outcome.kind = "response"
    THEN LET status == classifyStatus(outcome.status) IN
         IF status # "unknown"
         THEN [get |-> FALSE,
               result |-> [status |-> status, httpStatus |-> outcome.status, error |-> ""]]
         ELSE IF outcome.status = 405 THEN [get |-> TRUE, result |-> NoResult]
         ELSE [get |-> FALSE,
               result |-> [status |-> "unknown", httpStatus |-> outcome.status,
                           error |-> ""]]
    ELSE IF outcome.kind = "abort"
    THEN [get |-> FALSE, result |-> ServerAfterGet(ServerFetchAborted)]
    ELSE [get |-> TRUE, result |-> NoResult]

\* How dns.lookup(hostname) ends: an address, or an error with that code.
LookupOutcomes == {"resolved", "ENOTFOUND", "EAI_AGAIN", "EAI_FAIL"}

\* How the socket ends: the connect callback, the 'timeout' event, or an
\* 'error' event with that code (the socket resolves the name once more).
ConnectOutcomes == {"connected", "timeout", "ECONNREFUSED", "ENOTFOUND"}

\* The value of checkTcpConnectivity; port 0 stands for no port property.
NoProbe == [status |-> "none", error |-> "", port |-> 0]

\* u.port as a number, 0 for the empty string.
ExplicitPort(u) == IF u.host = "c.example:8080" THEN 8080 ELSE 0

\* u.port ? Number(u.port) : (u.protocol === 'https:' ? 443 : 80)
ProbePort(u) ==
    IF ExplicitPort(u) # 0 THEN ExplicitPort(u)
    ELSE IF u.scheme = "https:" THEN 443 ELSE 80

\* Mutant of TcpCatch: EAI_AGAIN is not taken for a DNS failure.
TcpCatch_notFoundOnly(e) ==
    IF e = "ENOTFOUND" THEN [status |-> "dead", error |-> "dns", port |-> 0]
    ELSE IF e = "timeout" THEN [status |-> "dead", error |-> "timeout", port |-> 0]
    ELSE [status |-> "dead", error |-> e, port |-> 0]

\* The catch block of checkTcpConnectivity for the error e (its code, or the
\* message 'timeout').
TcpCatch(e) ==
    IF e = "ENOTFOUND" \/ e = "EAI_AGAIN" THEN [status |-> "dead", error |-> "dns", port |-> 0]
    ELSE IF e = "timeout" THEN [status |-> "dead", error |-> "timeout", port |-> 0]
    ELSE [status |-> "dead", error |-> e, port |-> 0]

\* checkTcpConnectivity(targetUrl) when the lookup and the socket end that
\* way (connect = "none": no socket was opened).
checkTcpConnectivity(targetUrl, lookup, connect) ==
    IF lookup # "resolved" THEN TcpCatch(lookup)
    ELSE IF connect = "connected"
    THEN [status |-> "ok", error |-> "", port |-> ProbePort(targetUrl)]
    ELSE TcpCatch(connect)

\* What the probe did: the port it computed, its lookups and connects, and
\* how they ended.
NoProbing == [port |-> 0, lookups |-> 0, connects |-> 0, lookup |-> "none", connect |-> "none"]

\* The JSON body of the response: res.json({ url, mode, ...result }).
NoBody == [mode |-> "", status |-> "none", error |-> "", httpFallback |-> NoResult]

\* The handler: where it stands (pc), the mode and timeouts it computed, the
\* requests it has made, how they ended, and the response it sent.
IdleServer ==
    [pc |-> "idle", url |-> null, probe |-> NoProbing, mode |-> "", timeoutMs |-> 0, httpTimeoutMs |-> 0, tcpTimeoutMs |-> 0,
     reqs |-> [head |-> 0, get |-> 0, tcp |-> 0],
     head |-> NoOutcome, get |-> NoOutcome, http |-> NoResult, tcp |-> NoProbe,
     code |-> 0, body |-> NoBody]

\* The handler calls checkTcpConnectivity.
StartTcp(sv) ==
    [sv EXCEPT !.pc = "lookup", !.tcpTimeoutMs = TcpTimeout(sv.timeoutMs), !.reqs.tcp = @ + 1,
               !.probe = [NoProbing EXCEPT !.port = ProbePort(sv.url), !.lookups = 1]]

\* The handler up to its first await: 400 for a url that does not normalize,
\* the TCP probe in tcp/ping mode, else the server's checkLinkHealth.
Dispatch(q) ==
    LET normalized == ServerNormalizeUrl(q.url)
        mode == RequestedMode(q.mode)
        received == [IdleServer EXCEPT !.url = normalized, !.mode = mode,
                                      !.timeoutMs = EffectiveTimeout(q.timeoutMs)]
    IN  IF normalized = null
        THEN [IdleServer EXCEPT !.pc = "responded", !.code = 400,
                                !.body = [NoBody EXCEPT !.error = "Invalid url"]]
        ELSE IF mode = "tcp" \/ mode = "ping"
        THEN StartTcp(received)
        ELSE [received EXCEPT !.pc = "head", !.httpTimeoutMs = received.timeoutMs,
                              !.reqs.head = 1]

\* Mutant of AfterHttp: an unknown HTTP result is answered as it is, without
\* the TCP probe.
AfterHttp_noProbe(sv, httpResult) ==
    LET done == [sv EXCEPT !.http = httpResult] IN
    IF sv.mode = "http"
    THEN [done EXCEPT !.pc = "responded", !.code = 200,
                      !.body = [mode |-> "http", status |-> httpResult.status,
                                error |-> httpResult.error, httpFallback |-> NoResult]]
    ELSE [done EXCEPT !.pc = "responded", !.code = 200,
                      !.body = [mode |-> "auto", status |-> httpResult.status,
                                error |-> httpResult.error, httpFallback |-> NoResult]]

\* Mutant of AfterHttp: the early return of http mode is missing.
AfterHttp_noHttpMode(sv, httpResult) ==
    LET done == [sv EXCEPT !.http = httpResult] IN
    IF httpResult.status = "unknown"
    THEN StartTcp(done)
    ELSE [done EXCEPT !.pc = "responded", !.code = 200,
                      !.body = [mode |-> "auto", status |-> httpResult.status,
                                error |-> httpResult.error, httpFallback |-> NoResult]]

\* The handler after checkLinkHealth returned httpResult.
AfterHttp(sv, httpResult) ==
    LET done == [sv EXCEPT !.http = httpResult] IN
    IF sv.mode = "http"
    THEN [done EXCEPT !.pc = "responded", !.code = 200,
                      !.body = [mode |-> "http", status |-> httpResult.status,
                                error |-> httpResult.error, httpFallback |-> NoResult]]
    ELSE IF httpResult.status = "unknown"
    THEN StartTcp(done)
    ELSE [done EXCEPT !.pc = "responded", !.code = 200,
                      !.body = [mode |-> "auto", status |-> httpResult.status,
                                error |-> httpResult.error, httpFallback |-> NoResult]]

\* The handler after checkTcpConnectivity returned tcp.
AfterTcp(sv, tcp) ==
    [sv EXCEPT !.tcp = tcp, !.pc = "responded", !.code = 200,
               !.body = IF sv.mode = "tcp" \/ sv.mode = "ping"
                        THEN [mode |-> "tcp", status |-> tcp.status, error |-> tcp.error,
                              httpFallback |-> NoResult]
                        ELSE [mode |-> "auto", status |-> tcp.status, error |-> tcp.error,
                              httpFallback |-> sv.http]]

\* dns.lookup has ended: the socket connects, or the catch block returns.
LookupDone(sv, outcome) ==
    LET looked == [sv EXCEPT !.probe.lookup = outcome] IN
    IF outcome = "resolved"
    THEN [looked EXCEPT !.pc = "tcp", !.probe.connects = 1]
    ELSE AfterTcp(looked, checkTcpConnectivity(sv.url, outcome, "none"))

\* The socket has ended.
ConnectDone(sv, outcome) ==
    AfterTcp([sv EXCEPT !.probe.connect = outcome],
             checkTcpConnectivity(sv.url, sv.probe.lookup, outcome))

\* The HEAD fetch of the server's checkLinkHealth has ended.
HeadDone(sv, outcome) ==
    LET after == ServerAfterHead(outcome)
        seenHead == [sv EXCEPT !.head = ServerClassified(outcome)]
    IN  IF after.get
        THEN [seenHead EXCEPT !.pc = "get", !.reqs.get = @ + 1]
        ELSE AfterHttp(seenHead, after.result)

\* Its GET fetch has ended.
GetDone(sv, outcome) ==
    AfterHttp([sv EXCEPT !.get = ServerClassified(outcome)], ServerAfterGet(outcome))

(* ------------------------------ state ---------------------------------- *)

VARIABLES
    entry,          \* the exported function the UI called
    url,            \* checkLinkHealth's url argument
    bookmarks,      \* batchCheckLinks' bookmarks argument
    options,        \* the options argument (a record of the options given)
    externalSignal, \* options.signal: "none", "live" or "aborted"
    storage,        \* localStorage["linkHealthCache:v2"]
    clock,          \* Date.now()
    pc,             \* where the called function stands
    concurrency,    \* batchCheckLinks' locals ...
    cache,
    now,
    resultsById,
    queue,
    processed,
    cursor,
    claimed,        \* history: the queue indexes the workers took, in that order
    launched,       \* workers started so far by Array.from(..., () => worker())
    workers,        \* each worker: "unstarted", "checking" or "done"
    progress,       \* the processed values onProgress was called with
    writes,         \* calls of writeCache
    results,        \* the array batchCheckLinks returned
    ret,            \* the status checkLinkHealth resolved with
    chk,            \* the checkLinkHealth call of each slot
    networked,      \* ids of the targets a network request was issued for
    storage0,       \* history: the stored cache when the function was called
    atAbort,        \* history: resultsById, cache and processed when the signal fired
    seen,           \* history: how the attempts of the directly called check ended
    query,          \* req.query of the GET /api/link-health request
    srv,            \* the server's handler of that request
    overlap,        \* history: the store as a run overlapping this one persisted it
    tmo             \* history: the results that come from a check its own timer ended

inputVars == <<entry, url, bookmarks, options, storage0, query>>

batchVars == <<concurrency, cache, now, resultsById, queue, processed, cursor,
               claimed, launched, workers, progress, writes, results>>

vars == <<entry, url, bookmarks, options, externalSignal, storage, clock, pc,
          concurrency, cache, now, resultsById, queue, processed, cursor,
          claimed, launched, workers, progress, writes, results, ret, chk, networked,
          storage0, atAbort, seen, query, srv, overlap, tmo>>

\* Slot 0 is a direct checkLinkHealth call, slot w >= 1 is worker w's.
Slots == 0 .. MaxTargets

NoRequests == [api |-> 0, head |-> 0, get |-> 0]

\* The requests of a check that has moved to c: a check that now waits for a
\* fetch has just issued it.
Count(reqs, c) ==
    IF c.phase \in InFlightPhases THEN [reqs EXCEPT ![c.phase] = @ + 1] ELSE reqs

\* A slot holds the check, the item it is for (a target's id and the url
\* handed to checkLinkHealth) and the requests the check has issued.
Started(c, item) ==
    [phase |-> c.phase, result |-> c.result, id |-> item.id, url |-> item.url,
     reqs |-> Count(NoRequests, c)]

Moved(old, c) ==
    [phase |-> c.phase, result |-> c.result, id |-> old.id, url |-> old.url,
     reqs |-> Count(old.reqs, c)]

NotAborted == [resultsById |-> <<>>, cache |-> <<>>, processed |-> 0]

IdleSlot ==
    [phase |-> "idle", result |-> "none", id |-> 0, url |-> null, reqs |-> NoRequests]

\* checkLinkHealthViaApi's own timer ended its fetch.
ApiSubTimeout == [kind |-> "subtimeout", ok |-> FALSE, body |-> "unparsable"]

NothingSeen ==
    [request |-> NoOutcome, api |-> NoOutcome, head |-> NoOutcome, get |-> NoOutcome]

\* How a fetch of the target ended, with what classifyResponse made of the
\* response (the local `classified`).
Classified(outcome) ==
    [kind |-> outcome.kind, resp |-> outcome.resp,
     classified |-> IF outcome.kind = "response"
                    THEN classifyResponse(outcome.resp) ELSE "none"]

\* The attempt in flight in phase p is ended by the check's signal.
Ended(p) == IF p = "api" THEN ApiAborted ELSE Classified(FetchAborted)

\* networked once the check of target id has moved to c.
Issued(ids, id, c) == IF c.phase \in InFlightPhases THEN ids \cup {id} ELSE ids

ClockStart == TtlTicks + 1

\* No overlapping run has written the store.
NoStore == [raw |-> "none", map |-> EmptyMap]

\* The history of the per-check timeouts: the slots whose check its own timer
\* ended, the URLs whose entry of the cache map was written from such a
\* check, and the URLs whose stored entry was.  It is kept only where
\* watched is set.
NoTimeouts(watched) == [watched |-> watched, slots |-> {}, cache |-> {}, store |-> {}]

\* The timer of the check of slot s has ended it.
TimerEnded(t, s) == IF t.watched THEN [t EXCEPT !.slots = @ \cup {s}] ELSE t

\* The worker of slot s has written the entry of itemUrl into the cache map.
Recorded(t, s, itemUrl) ==
    IF t.watched
    THEN [t EXCEPT !.slots = @ \ {s},
                   !.cache = IF s \in t.slots THEN @ \cup {itemUrl} ELSE @ \ {itemUrl}]
    ELSE t

\* writeCache has stored the cache map.
Persisted(t) == IF t.watched THEN [t EXCEPT !.store = t.cache] ELSE t

\* readCache has returned the stored map.
Loaded(t, cached) ==
    IF t.watched THEN [t EXCEPT !.slots = {}, !.cache = t.store \cap DOMAIN cached] ELSE t

(* ------------------------------ inputs --------------------------------- *)

BadRaw == [pad |-> FALSE, scheme |-> "", host |-> BadHost, path |-> ""]

\* " a.example " : padded, no scheme.
RawA == [pad |-> TRUE, scheme |-> "", host |-> "a.example", path |-> ""]

\* "https://b.example/" : normalized already.
UrlB == [pad |-> FALSE, scheme |-> "https:", host |-> "b.example", path |-> "/"]

\* The URLs of the bookmarks of a batch, in the order the lists keep them.
BatchUrls == <<BadRaw, RawA, UrlB>>

\* The bookmark lists of the model: up to MaxTargets bookmarks with these
\* URLs, equal URLs next to each other.  Bookmark ids are unique: the i-th
\* bookmark has id i.
BookmarkLists ==
    UNION { { [i \in 1 .. n |-> [id |-> i, url |-> BatchUrls[f[i]]]] :
                f \in { g \in [1 .. n -> DOMAIN BatchUrls] :
                          \A i \in 1 .. n, j \in 1 .. n : i <= j => g[i] <= g[j] } } :
            n \in 0 .. MaxTargets }

\* The URL a former run may have left an entry for.
CacheKeys == { normalizeUrl(RawA) }

\* Entries a former run may have left: checked now, exactly cacheTtlMs ago,
\* and longer ago than that.
StoredEntries ==
    { [status |-> "dead", checkedAt |-> ClockStart],
      [status |-> "ok", checkedAt |-> ClockStart - TtlTicks],
      [status |-> "ok", checkedAt |-> ClockStart - TtlTicks - 1] }

\* The stored item: unparsable, or a JSON object holding such entries.
Storages ==
    { [raw |-> "malformed", map |-> EmptyMap] }
    \cup { [raw |-> "json", map |-> m] : m \in [CacheKeys -> StoredEntries] }

BatchOptions ==
    { [cacheTtlMs |-> TtlTicks] @@ c @@ f :
        c \in {EmptyMap, [concurrency |-> 0], [concurrency |-> 2]},
        f \in {EmptyMap, [forceRefresh |-> TRUE]} }

CheckOptions == {EmptyMap, [timeoutMs |-> ShortTimeoutMs]}

\* Mutant of EffectiveConcurrency: the pool is as large as the batch, whatever
\* the caller asked for.
EffectiveConcurrency_ignoresRequested(opts, total) == IF total = 0 THEN 1 ELSE total

\* Math.max(1, Math.min(options?.concurrency ?? 20, total || 1))
EffectiveConcurrency(opts, total) ==
    Max(1, Min(OptOr(opts, "concurrency", DefaultConcurrency),
               IF total = 0 THEN 1 ELSE total))

\* The batchCheckLinks calls of the model: those that start at most MaxPool
\* workers.
BatchCalls ==
    { call \in BookmarkLists \X BatchOptions :
        EffectiveConcurrency(call[2], Len(call[1])) <= MaxPool }

\* "ftp://a.example/"
FtpUrl == [pad |-> FALSE, scheme |-> "ftp:", host |-> "a.example", path |-> "/"]

\* "http://a.example"
HttpUrl == [pad |-> FALSE, scheme |-> "http:", host |-> "a.example", path |-> ""]

\* "http://c.example:8080/"
PortUrl == [pad |-> FALSE, scheme |-> "http:", host |-> "c.example:8080", path |-> "/"]

\* The queries of the requests sent to GET /api/link-health.
Queries ==
    [url : {AbsentUrl, null, BadRaw, RawA, UrlB, FtpUrl, HttpUrl, PortUrl},
     mode : ModeParams,
     timeoutMs : TimeoutParams]

\* No request was sent to the server.
NoQuery == [url |-> AbsentUrl, mode |-> Absent, timeoutMs |-> [kind |-> "absent", n |-> 0]]

\* Nothing has run yet.
Fresh ==
    /\ clock = ClockStart
    /\ pc = "idle"
    /\ concurrency = 0
    /\ cache = EmptyMap
    /\ now = 0
    /\ resultsById = EmptyMap
    /\ queue = <<>>
    /\ processed = 0
    /\ cursor = 0
    /\ claimed = <<>>
    /\ launched = 0
    /\ workers = EmptyMap
    /\ progress = <<>>
    /\ writes = 0
    /\ results = <<>>
    /\ ret = "none"
    /\ chk = [s \in Slots |-> IdleSlot]
    /\ networked = {}
    /\ storage0 = storage
    /\ atAbort = NotAborted
    /\ seen = NothingSeen
    /\ srv = IdleServer
    /\ overlap = NoStore

Init ==
    /\ entry \in {"checkLinkHealth", "batchCheckLinks", "apiLinkHealth"}
    /\ IF entry = "checkLinkHealth"
       THEN /\ url \in RawUrls
            /\ bookmarks = <<>>
            /\ options \in CheckOptions
            /\ storage = [raw |-> "malformed", map |-> EmptyMap]
            /\ externalSignal \in {"none", "live", "aborted"}
            /\ query = NoQuery
       ELSE IF entry = "batchCheckLinks"
       THEN /\ url = null
            /\ \E call \in BatchCalls : bookmarks = call[1] /\ options = call[2]
            /\ storage \in Storages
            /\ externalSignal \in {"live", "aborted"}
            /\ query = NoQuery
       ELSE /\ url = null
            /\ bookmarks = <<>>
            /\ options = EmptyMap
            /\ storage = [raw |-> "malformed", map |-> EmptyMap]
            /\ externalSignal = "none"
            /\ query \in Queries
    /\ Fresh
    /\ tmo = NoTimeouts(FALSE)

(* ----------------------- checkLinkHealth, called directly --------------- *)

\* The timeoutMs of the running call (options?.timeoutMs ?? default).
timeoutMs ==
    OptOr(options, "timeoutMs",
          IF entry = "checkLinkHealth" THEN DefaultCheckTimeoutMs ELSE DefaultBatchTimeoutMs)

\* The sub-timeout checkLinkHealth gives the server API call.
apiTimeoutMs == Min(timeoutMs, ApiSubTimeoutCap)

\* The request checkLinkHealthViaApi sends: the query of its apiUrl.
ApiRequest(normalized) ==
    [url |-> normalized, mode |-> "auto", timeoutMs |-> apiTimeoutMs]

\* checkLinkHealth(url, options) runs up to its first await of a fetch.
CallCheckLinkHealth ==
    /\ entry = "checkLinkHealth"
    /\ pc = "idle"
    /\ LET c == BeginCheck(url, mergeSignals(externalSignal)) IN
       /\ chk' = [chk EXCEPT ![0] = Started(c, [id |-> 0, url |-> url])]
       /\ networked' = Issued(networked, 0, c)
       /\ seen' = IF c.phase = "api"
                  THEN [seen EXCEPT !.request = ApiRequest(normalizeUrl(url))]
                  ELSE seen
    /\ pc' = "checking"
    /\ UNCHANGED <<inputVars, overlap, tmo, srv, externalSignal, storage, clock, batchVars, ret,
                   atAbort>>

\* The caller's await of checkLinkHealth resumes with the status.
CheckReturns ==
    /\ entry = "checkLinkHealth"
    /\ pc = "checking"
    /\ chk[0].phase = "resolved"
    /\ ret' = chk[0].result
    /\ pc' = "returned"
    /\ chk' = [chk EXCEPT ![0].phase = "returned"]
    /\ UNCHANGED <<inputVars, overlap, tmo, srv, seen, externalSignal, storage, clock, batchVars,
                   networked, atAbort>>

(* ------------------------ events of the event loop --------------------- *)

\* No continuation is pending: the event loop takes the next task (a network
\* event, a timer, the user's cancel).
EventLoopIdle ==
    /\ \A s \in Slots : chk[s].phase # "resolved"
    /\ IF entry = "checkLinkHealth"
       THEN pc = "checking"
       ELSE pc = "running" /\ \E w \in DOMAIN workers : workers[w] # "done"

\* The check of slot s moves to c.
Advance(s, c) ==
    /\ chk' = [chk EXCEPT ![s] = Moved(chk[s], c)]
    /\ networked' = Issued(networked, chk[s].id, c)
    /\ UNCHANGED <<inputVars, overlap, srv, externalSignal, storage, clock, pc, batchVars, ret, atAbort>>

\* The fetch of /api/link-health settles.
ApiSettles(s) ==
    /\ EventLoopIdle
    /\ chk[s].phase = "api"
    /\ IF s = 0
       THEN \E outcome \in ApiOutcomes :
              /\ Advance(s, AfterApi(ApiStatus(outcome), FALSE))
              /\ seen' = [seen EXCEPT !.api = outcome]
       ELSE /\ \E c \in { AfterApi(ApiStatus(outcome), FALSE) : outcome \in ApiOutcomes } :
                 Advance(s, c)
            /\ UNCHANGED seen
    /\ UNCHANGED tmo

\* checkLinkHealthViaApi's own timer fires before the check's timer.
ApiTimeout(s) ==
    /\ EventLoopIdle
    /\ chk[s].phase = "api"
    /\ apiTimeoutMs < timeoutMs
    /\ Advance(s, AfterApi(ApiStatus(ApiAborted), FALSE))
    /\ seen' = IF s = 0 THEN [seen EXCEPT !.api = ApiSubTimeout] ELSE seen
    /\ UNCHANGED tmo

\* The HEAD fetch settles.
HeadSettles(s) ==
    /\ EventLoopIdle
    /\ chk[s].phase = "head"
    /\ IF s = 0
       THEN \E outcome \in FetchOutcomes :
              /\ Advance(s, AfterHead(outcome))
              /\ seen' = [seen EXCEPT !.head = Classified(outcome)]
       ELSE /\ \E c \in { AfterHead(outcome) : outcome \in FetchOutcomes } : Advance(s, c)
            /\ UNCHANGED seen
    /\ UNCHANGED tmo

\* The GET fetch settles.
GetSettles(s) ==
    /\ EventLoopIdle
    /\ chk[s].phase = "get"
    /\ IF s = 0
       THEN \E outcome \in FetchOutcomes :
              /\ Advance(s, AfterGet(outcome))
              /\ seen' = [seen EXCEPT !.get = Classified(outcome)]
       ELSE /\ \E c \in { AfterGet(outcome) : outcome \in FetchOutcomes } : Advance(s, c)
            /\ UNCHANGED seen
    /\ UNCHANGED tmo

\* The check's timer fires: controller.abort(). While the API call is in
\* flight the API call's timer comes first unless both wait equally long.
CheckTimeout(s) ==
    /\ EventLoopIdle
    /\ chk[s].phase \in InFlightPhases
    /\ chk[s].phase = "api" => timeoutMs <= apiTimeoutMs
    /\ Advance(s, AbortInFlight(chk[s].phase))
    /\ seen' = IF s = 0 THEN [seen EXCEPT ![chk[s].phase] = Ended(chk[s].phase)] ELSE seen
    /\ tmo' = TimerEnded(tmo, s)

\* The user cancels: the caller's signal fires and, through mergeSignals,
\* every check in flight is aborted.
ExternalAbort ==
    /\ EventLoopIdle
    /\ externalSignal = "live"
    /\ externalSignal' = "aborted"
    /\ chk' = [s \in Slots |->
                 IF chk[s].phase \in InFlightPhases
                 THEN Moved(chk[s], AbortInFlight(chk[s].phase))
                 ELSE chk[s]]
    /\ atAbort' = [resultsById |-> resultsById, cache |-> cache, processed |-> processed]
    /\ seen' = IF chk[0].phase \in InFlightPhases
               THEN [seen EXCEPT ![chk[0].phase] = Ended(chk[0].phase)]
               ELSE seen
    /\ UNCHANGED <<inputVars, overlap, tmo, srv, storage, clock, pc, batchVars, ret, networked>>

\* Time passes between two tasks.
Tick ==
    /\ EventLoopIdle
    /\ clock < ClockStart + MaxTick
    /\ clock' = clock + 1
    /\ UNCHANGED <<inputVars, overlap, tmo, srv, seen, externalSignal, storage, pc, batchVars, ret,
                   chk, networked,
                   atAbort>>

(* --------------------------- batchCheckLinks --------------------------- *)

\* Mutant of CacheHit: an entry exactly cacheTtlMs old is stale.
CacheHit_strictlyYounger(cacheMap, normalized, nowMs, cacheTtlMs, forceRefresh) ==
    /\ ~forceRefresh
    /\ normalized \in DOMAIN cacheMap
    /\ nowMs - cacheMap[normalized].checkedAt < cacheTtlMs

\* !forceRefresh && cached && now - cached.checkedAt <= cacheTtlMs
CacheHit(cacheMap, normalized, nowMs, cacheTtlMs, forceRefresh) ==
    /\ ~forceRefresh
    /\ normalized \in DOMAIN cacheMap
    /\ nowMs - cacheMap[normalized].checkedAt <= cacheTtlMs

\* Map.prototype.set
MapSet(map, key, value) == (key :> value) @@ map

\* Mutant of Partition: a bookmark whose URL does not normalize is skipped
\* and left to the placeholder of the result array.
RECURSIVE Partition_skipsInvalid(_, _, _, _, _, _, _)
Partition_skipsInvalid(bs, cacheMap, nowMs, cacheTtlMs, forceRefresh, res, q) ==
    IF bs = <<>> THEN [resultsById |-> res, queue |-> q]
    ELSE LET b == Head(bs)
             normalized == normalizeUrl(b.url)
         IN  IF normalized = null
             THEN Partition_skipsInvalid(Tail(bs), cacheMap, nowMs, cacheTtlMs, forceRefresh,
                      res, q)
             ELSE IF CacheHit(cacheMap, normalized, nowMs, cacheTtlMs, forceRefresh)
             THEN Partition_skipsInvalid(Tail(bs), cacheMap, nowMs, cacheTtlMs, forceRefresh,
                      MapSet(res, b.id, [id |-> b.id, url |-> b.url,
                                         status |-> cacheMap[normalized].status]), q)
             ELSE Partition_skipsInvalid(Tail(bs), cacheMap, nowMs, cacheTtlMs, forceRefresh,
                      res, Append(q, [id |-> b.id, url |-> normalized]))

\* The loop over the bookmarks: invalid URLs and cache hits are resolved into
\* res, the rest is pushed on the queue q under its normalized URL.
RECURSIVE Partition(_, _, _, _, _, _, _)
Partition(bs, cacheMap, nowMs, cacheTtlMs, forceRefresh, res, q) ==
    IF bs = <<>> THEN [resultsById |-> res, queue |-> q]
    ELSE LET b == Head(bs)
             normalized == normalizeUrl(b.url)
         IN  IF normalized = null
             THEN Partition(Tail(bs), cacheMap, nowMs, cacheTtlMs, forceRefresh,
                      MapSet(res, b.id, [id |-> b.id, url |-> b.url, status |-> "dead"]), q)
             ELSE IF CacheHit(cacheMap, normalized, nowMs, cacheTtlMs, forceRefresh)
             THEN Partition(Tail(bs), cacheMap, nowMs, cacheTtlMs, forceRefresh,
                      MapSet(res, b.id, [id |-> b.id, url |-> b.url,
                                         status |-> cacheMap[normalized].status]), q)
             ELSE Partition(Tail(bs), cacheMap, nowMs, cacheTtlMs, forceRefresh,
                      res, Append(q, [id |-> b.id, url |-> normalized]))

\* Mutant of InitialProcessed: the counter starts at zero.
InitialProcessed_zero(res) == 0

\* let processed = resultsById.size
InitialProcessed(res) == Cardinality(DOMAIN res)

\* Mutant of ReportProgress: nothing is reported while processed is 0.
ReportProgress_skipsZero(log, processedNow) ==
    IF processedNow = 0 THEN log ELSE Append(log, processedNow)

\* onProgress?.(processed, total): the call is appended to the log.
ReportProgress(log, processedNow) == Append(log, processedNow)

\* Mutant of CacheSet: the cache map is left as it was.
CacheSet_skips(cacheMap, itemUrl, status, dateNow) == cacheMap

\* cache[item.url] = { status, checkedAt: Date.now() }
CacheSet(cacheMap, itemUrl, status, dateNow) ==
    MapSet(cacheMap, itemUrl, [status |-> status, checkedAt |-> dateNow])

\* batchCheckLinks up to the start of its workers: the options, readCache,
\* the partition of the bookmarks and the first onProgress call.
CallBatch ==
    /\ entry = "batchCheckLinks"
    /\ pc = "idle"
    /\ LET total == Len(bookmarks)
           cached == readCache(storage)
           parts == Partition(bookmarks, cached, clock,
                              options.cacheTtlMs, OptOr(options, "forceRefresh", FALSE),
                              EmptyMap, <<>>)
       IN  /\ concurrency' = EffectiveConcurrency(options, total)
           /\ cache' = cached
           /\ now' = clock
           /\ resultsById' = parts.resultsById
           /\ queue' = parts.queue
           /\ processed' = InitialProcessed(parts.resultsById)
           /\ progress' = ReportProgress(<<>>, InitialProcessed(parts.resultsById))
           /\ workers' = [w \in 1 .. EffectiveConcurrency(options, total) |-> "unstarted"]
           /\ tmo' = Loaded(tmo, cached)
           /\ atAbort' = IF externalSignal = "aborted"
                         THEN [resultsById |-> parts.resultsById, cache |-> cached,
                               processed |-> InitialProcessed(parts.resultsById)]
                         ELSE atAbort
    /\ cursor' = 0
    /\ claimed' = <<>>
    /\ launched' = 0
    /\ pc' = "launching"
    /\ UNCHANGED <<inputVars, overlap, srv, seen, externalSignal, storage, clock, writes, results, ret, chk, networked>>

\* Mutant of Claim: the worker does not look at the signal.
Claim_ignoresSignal(w) ==
    /\ cursor' = cursor + 1
    /\ IF cursor >= Len(queue)
       THEN /\ workers' = [workers EXCEPT ![w] = "done"]
            /\ chk' = [chk EXCEPT ![w] = IdleSlot]
            /\ UNCHANGED <<claimed, networked>>
       ELSE LET item == queue[cursor + 1]
                c == BeginCheck(item.url, mergeSignals(externalSignal))
            IN  /\ workers' = [workers EXCEPT ![w] = "checking"]
                /\ chk' = [chk EXCEPT ![w] = Started(c, item)]
                /\ networked' = Issued(networked, item.id, c)
                /\ claimed' = Append(claimed, cursor)

\* Mutant of Claim: the workers started together read the cursor before any
\* of them has advanced it.
Claim_sharedIndex(w) ==
    IF externalSignal = "aborted"
    THEN /\ workers' = [workers EXCEPT ![w] = "done"]
         /\ chk' = [chk EXCEPT ![w] = IdleSlot]
         /\ UNCHANGED <<cursor, claimed, networked>>
    ELSE /\ cursor' = IF pc = "launching" THEN cursor ELSE cursor + 1
         /\ IF cursor >= Len(queue)
            THEN /\ workers' = [workers EXCEPT ![w] = "done"]
                 /\ chk' = [chk EXCEPT ![w] = IdleSlot]
                 /\ UNCHANGED <<claimed, networked>>
            ELSE LET item == queue[cursor + 1]
                     c == BeginCheck(item.url, mergeSignals(externalSignal))
                 IN  /\ workers' = [workers EXCEPT ![w] = "checking"]
                     /\ chk' = [chk EXCEPT ![w] = Started(c, item)]
                     /\ networked' = Issued(networked, item.id, c)
                     /\ claimed' = Append(claimed, cursor)

\* Mutant of Claim: a worker that finds the signal fired waits for a check it
\* never started instead of leaving its loop.
Claim_waitsWhenAborted(w) ==
    IF externalSignal = "aborted"
    THEN /\ workers' = [workers EXCEPT ![w] = "checking"]
         /\ chk' = [chk EXCEPT ![w] = IdleSlot]
         /\ UNCHANGED <<cursor, claimed, networked>>
    ELSE /\ cursor' = cursor + 1
         /\ IF cursor >= Len(queue)
            THEN /\ workers' = [workers EXCEPT ![w] = "done"]
                 /\ chk' = [chk EXCEPT ![w] = IdleSlot]
                 /\ UNCHANGED <<claimed, networked>>
            ELSE LET item == queue[cursor + 1]
                     c == BeginCheck(item.url, mergeSignals(externalSignal))
                 IN  /\ workers' = [workers EXCEPT ![w] = "checking"]
                     /\ chk' = [chk EXCEPT ![w] = Started(c, item)]
                     /\ networked' = Issued(networked, item.id, c)
                     /\ claimed' = Append(claimed, cursor)

\* One turn of worker w's loop up to its await: stop when the signal has
\* fired, take the next queue index, stop when the queue is used up, else
\* call checkLinkHealth for the item.
Claim(w) ==
    IF externalSignal = "aborted"
    THEN /\ workers' = [workers EXCEPT ![w] = "done"]
         /\ chk' = [chk EXCEPT ![w] = IdleSlot]
         /\ UNCHANGED <<cursor, claimed, networked>>
    ELSE /\ cursor' = cursor + 1
         /\ IF cursor >= Len(queue)
            THEN /\ workers' = [workers EXCEPT ![w] = "done"]
                 /\ chk' = [chk EXCEPT ![w] = IdleSlot]
                 /\ UNCHANGED <<claimed, networked>>
            ELSE LET item == queue[cursor + 1]
                     c == BeginCheck(item.url, mergeSignals(externalSignal))
                 IN  /\ workers' = [workers EXCEPT ![w] = "checking"]
                     /\ chk' = [chk EXCEPT ![w] = Started(c, item)]
                     /\ networked' = Issued(networked, item.id, c)
                     /\ claimed' = Append(claimed, cursor)

\* Array.from({ length: concurrency }, () => worker()): the workers start one
\* after the other, each running to its first await.
WorkerStart(w) ==
    /\ pc = "launching"
    /\ w = launched + 1
    /\ w \in DOMAIN workers
    /\ Claim(w)
    /\ launched' = w
    /\ pc' = IF w = concurrency THEN "running" ELSE "launching"
    /\ UNCHANGED <<inputVars, overlap, tmo, srv, seen, externalSignal, storage, clock, concurrency,
                   cache, now,
                   resultsById, queue, processed, progress, writes, results, ret, atAbort>>

\* Worker w resumes after its await of checkLinkHealth: it records the
\* result, writes the cache map, reports progress and takes the next turn.
WorkerResume(w) ==
    /\ pc = "running"
    /\ w \in DOMAIN workers
    /\ workers[w] = "checking"
    /\ chk[w].phase = "resolved"
    /\ resultsById' = MapSet(resultsById, chk[w].id,
                             [id |-> chk[w].id, url |-> chk[w].url, status |-> chk[w].result])
    /\ cache' = CacheSet(cache, chk[w].url, chk[w].result, clock)
    /\ processed' = processed + 1
    /\ progress' = ReportProgress(progress, processed + 1)
    /\ tmo' = Recorded(tmo, w, chk[w].url)
    /\ Claim(w)
    /\ UNCHANGED <<inputVars, overlap, srv, seen, externalSignal, storage, clock, pc, concurrency, now, queue,
                   launched, writes, results, ret, atAbort>>

\* Mutant of ResultArray: only the recorded results are returned.
ResultArray_recordedOnly(bs, res) ==
    LET kept == SelectSeq(bs, LAMBDA b : b.id \in DOMAIN res)
    IN  [i \in 1 .. Len(kept) |-> res[kept[i].id]]

\* Mutant of ResultArray: the placeholder carries the internal "unknown".
ResultArray_unknownPlaceholder(bs, res) ==
    [i \in 1 .. Len(bs) |->
        IF bs[i].id \in DOMAIN res THEN res[bs[i].id]
        ELSE [id |-> bs[i].id, url |-> bs[i].url, status |-> "unknown"]]

\* bookmarks.map(b => resultsById.get(b.id) ?? { ..., status: "dead" })
ResultArray(bs, res) ==
    [i \in 1 .. Len(bs) |->
        IF bs[i].id \in DOMAIN res THEN res[bs[i].id]
        ELSE [id |-> bs[i].id, url |-> bs[i].url, status |-> "dead"]]

\* Mutant of PersistsCache: the cache is written whatever the signal says.
PersistsCache_always(signal) == TRUE

\* Whether batchCheckLinks calls writeCache after Promise.all.
PersistsCache(signal) == signal # "aborted"

\* Promise.all settled: every worker has left its loop.  The cache is
\* written unless the signal has fired, and the result array is returned.
BatchReturns ==
    /\ entry = "batchCheckLinks"
    /\ pc = "running"
    /\ \A w \in DOMAIN workers : workers[w] = "done"
    /\ IF PersistsCache(externalSignal)
       THEN /\ \E setItemThrows \in BOOLEAN :
                 /\ storage' = writeCache(storage, cache, setItemThrows)
                 /\ tmo' = IF setItemThrows THEN tmo ELSE Persisted(tmo)
            /\ writes' = writes + 1
       ELSE UNCHANGED <<storage, writes, tmo>>
    /\ results' = ResultArray(bookmarks, resultsById)
    /\ pc' = "returned"
    /\ UNCHANGED <<inputVars, overlap, srv, seen, externalSignal, clock, concurrency, cache, now, resultsById,
                   queue, processed, cursor, claimed, launched, workers, progress, ret, chk,
                   networked,
                   atAbort>>

(* ------------------- the server handles the request -------------------- *)

clientVars == <<externalSignal, storage, clock, pc, batchVars, ret, chk, networked,
                atAbort, seen, tmo>>

\* app.get('/api/link-health') runs up to its first await.
HandleLinkHealth ==
    /\ entry = "apiLinkHealth"
    /\ srv.pc = "idle"
    /\ srv' = Dispatch(query)
    /\ UNCHANGED <<inputVars, overlap, clientVars>>

\* The server's HEAD fetch settles.
ServerHeadSettles ==
    /\ srv.pc = "head"
    /\ \E outcome \in ServerFetchOutcomes : srv' = HeadDone(srv, outcome)
    /\ UNCHANGED <<inputVars, overlap, clientVars>>

\* The server's GET fetch settles.
ServerGetSettles ==
    /\ srv.pc = "get"
    /\ \E outcome \in ServerFetchOutcomes : srv' = GetDone(srv, outcome)
    /\ UNCHANGED <<inputVars, overlap, clientVars>>

\* The timer of the server's checkLinkHealth fires: controller.abort().
ServerTimeout ==
    /\ srv.pc \in {"head", "get"}
    /\ srv' = IF srv.pc = "head"
              THEN HeadDone(srv, ServerFetchAborted)
              ELSE GetDone(srv, ServerFetchAborted)
    /\ UNCHANGED <<inputVars, overlap, clientVars>>

\* The DNS lookup of the TCP probe ends.
LookupSettles ==
    /\ srv.pc = "lookup"
    /\ \E outcome \in LookupOutcomes : srv' = LookupDone(srv, outcome)
    /\ UNCHANGED <<inputVars, overlap, clientVars>>

\* The socket of the TCP probe ends.
TcpSettles ==
    /\ srv.pc = "tcp"
    /\ \E outcome \in ConnectOutcomes : srv' = ConnectDone(srv, outcome)
    /\ UNCHANGED <<inputVars, overlap, clientVars>>

(* --------------------------- specification ----------------------------- *)

Next ==
    \/ CallCheckLinkHealth
    \/ CheckReturns
    \/ CallBatch
    \/ \E w \in Slots : WorkerStart(w)
    \/ \E w \in Slots : WorkerResume(w)
    \/ BatchReturns
    \/ \E s \in Slots : ApiSettles(s)
    \/ \E s \in Slots : ApiTimeout(s)
    \/ \E s \in Slots : HeadSettles(s)
    \/ \E s \in Slots : GetSettles(s)
    \/ \E s \in Slots : CheckTimeout(s)
    \/ ExternalAbort
    \/ Tick
    \/ HandleLinkHealth
    \/ ServerHeadSettles
    \/ ServerGetSettles
    \/ ServerTimeout
    \/ LookupSettles
    \/ TcpSettles

Spec == Init /\ [][Next]_vars

\* What the event loop does by itself once a function was called: it runs the
\* continuations that are ready, and every pending fetch settles or is ended
\* by a timer.
Progress ==
    \/ CheckReturns
    \/ \E w \in Slots : WorkerStart(w)
    \/ \E w \in Slots : WorkerResume(w)
    \/ BatchReturns
    \/ \E s \in Slots : ApiSettles(s)
    \/ \E s \in Slots : ApiTimeout(s)
    \/ \E s \in Slots : HeadSettles(s)
    \/ \E s \in Slots : GetSettles(s)
    \/ \E s \in Slots : CheckTimeout(s)

\* The calls whose end is followed up: nothing usable in the store (so that
\* forceRefresh changes nothing and is left out), and for a direct call the
\* URLs the batches use.
LiveInit ==
    /\ Init
    /\ entry \in {"checkLinkHealth", "batchCheckLinks"}
    /\ storage.raw = "malformed"
    /\ "forceRefresh" \notin DOMAIN options
    /\ entry = "checkLinkHealth" => url \in {BadRaw, RawA, UrlB}

LiveNext ==
    \/ CallCheckLinkHealth
    \/ CallBatch
    \/ Progress
    \/ ExternalAbort
    \/ Tick

\* The client with an event loop that never stops while work is pending.
LiveSpec == LiveInit /\ [][LiveNext]_vars /\ WF_vars(Progress)

(* ------------------------- one run after another ----------------------- *)

\* What the store may hold before the first run: nothing parsable, an empty
\* object, or entries of former runs.
RunStorages == Storages \cup { [raw |-> "json", map |-> EmptyMap] }

RunsInit ==
    /\ entry = "batchCheckLinks"
    /\ url = null
    /\ \E call \in BatchCalls :
         /\ Len(call[1]) <= MaxRunTargets
         /\ bookmarks = call[1]
         /\ options = call[2]
    /\ storage \in RunStorages
    /\ externalSignal \in {"live", "aborted"}
    /\ query = NoQuery
    /\ Fresh
    /\ tmo = NoTimeouts(FALSE)

\* The UI calls batchCheckLinks again for the same bookmarks, with a new
\* AbortController: the run starts from what the store holds by now.
CallAgain ==
    /\ entry = "batchCheckLinks"
    /\ pc = "returned"
    /\ pc' = "idle"
    /\ externalSignal' = "live"
    /\ storage0' = storage
    /\ concurrency' = 0
    /\ cache' = EmptyMap
    /\ now' = 0
    /\ resultsById' = EmptyMap
    /\ queue' = <<>>
    /\ processed' = 0
    /\ cursor' = 0
    /\ claimed' = <<>>
    /\ launched' = 0
    /\ workers' = EmptyMap
    /\ progress' = <<>>
    /\ writes' = 0
    /\ results' = <<>>
    /\ chk' = [s \in Slots |-> IdleSlot]
    /\ networked' = {}
    /\ atAbort' = NotAborted
    /\ overlap' = NoStore
    /\ UNCHANGED <<entry, url, bookmarks, options, storage, clock, ret, seen, query, srv, tmo>>

RunsNext ==
    \/ CallBatch
    \/ \E w \in Slots : WorkerStart(w)
    \/ \E w \in Slots : WorkerResume(w)
    \/ BatchReturns
    \/ \E s \in Slots : ApiSettles(s)
    \/ \E s \in Slots : ApiTimeout(s)
    \/ \E s \in Slots : HeadSettles(s)
    \/ \E s \in Slots : GetSettles(s)
    \/ \E s \in Slots : CheckTimeout(s)
    \/ ExternalAbort
    \/ Tick
    \/ CallAgain

RunsSpec == RunsInit /\ [][RunsNext]_vars

(* --------------------------- the worker pool ---------------------------- *)

\* The concurrency a caller may ask for: nothing, a negative number, zero,
\* one, two, and more than there are bookmarks.
PoolOptions ==
    { [cacheTtlMs |-> TtlTicks] @@ c :
        c \in {EmptyMap} \cup { [concurrency |-> n] : n \in {0 - 1, 0, 1, 2, MaxTargets + 2} } }

PoolInit ==
    /\ entry = "batchCheckLinks"
    /\ url = null
    /\ \E bs \in BookmarkLists, opts \in PoolOptions :
         /\ EffectiveConcurrency(opts, Len(bs)) <= MaxPool
         /\ bookmarks = bs
         /\ options = opts
    /\ storage \in Storages
    /\ externalSignal \in {"live", "aborted"}
    /\ query = NoQuery
    /\ Fresh
    /\ tmo = NoTimeouts(FALSE)

PoolNext ==
    \/ CallBatch
    \/ \E w \in Slots : WorkerStart(w)
    \/ \E w \in Slots : WorkerResume(w)
    \/ BatchReturns
    \/ \E s \in Slots : ApiSettles(s)
    \/ \E s \in Slots : ApiTimeout(s)
    \/ \E s \in Slots : HeadSettles(s)
    \/ \E s \in Slots : GetSettles(s)
    \/ \E s \in Slots : CheckTimeout(s)
    \/ ExternalAbort
    \/ Tick

\* One batch run, for every concurrency the caller may ask for.
PoolSpec == PoolInit /\ [][PoolNext]_vars

(* ------------------------ runs that follow timeouts up ------------------ *)

\* Runs of the default concurrency that start with nothing usable in the
\* store, each followed by further runs; the history of the per-check
\* timeouts is kept.
TimeoutInit ==
    /\ entry = "batchCheckLinks"
    /\ url = null
    /\ \E call \in BatchCalls :
         /\ Len(call[1]) <= MaxRunTargets
         /\ "concurrency" \notin DOMAIN call[2]
         /\ bookmarks = call[1]
         /\ options = call[2]
    /\ storage = [raw |-> "malformed", map |-> EmptyMap]
    /\ externalSignal = "live"
    /\ query = NoQuery
    /\ Fresh
    /\ tmo = NoTimeouts(TRUE)

TimeoutSpec == TimeoutInit /\ [][RunsNext]_vars

(* ----------------------------- two runs at once ------------------------ *)

\* The URLs a run that overlaps this one may have checked: one of this
\* batch's, and one no bookmark of this batch has ("http://a.example/").
OtherUrls == {UrlB, UrlToString(HttpUrl)}

\* The runs that are overlapped: the default concurrency, a live signal.
OverlapInit ==
    /\ entry = "batchCheckLinks"
    /\ url = null
    /\ \E call \in BatchCalls :
         /\ Len(call[1]) <= MaxRunTargets
         /\ "concurrency" \notin DOMAIN call[2]
         /\ bookmarks = call[1]
         /\ options = call[2]
    /\ storage \in Storages
    /\ externalSignal = "live"
    /\ query = NoQuery
    /\ Fresh
    /\ tmo = NoTimeouts(FALSE)

\* Another batchCheckLinks run, started before or after this one, reaches
\* its writeCache while this run waits for its checks: it stores the map it
\* read from the store plus the entry of a URL it checked.
OtherRunPersists ==
    /\ entry = "batchCheckLinks"
    /\ EventLoopIdle
    /\ overlap = NoStore
    /\ \E u \in OtherUrls :
         storage' = writeCache(storage, CacheSet(readCache(storage), u, "dead", clock), FALSE)
    /\ overlap' = storage'
    /\ UNCHANGED <<inputVars, tmo, srv, seen, externalSignal, clock, pc, batchVars, ret, chk,
                   networked, atAbort>>

OverlapNext ==
    \/ PoolNext
    \/ OtherRunPersists

\* One batch run, and a second run that persists its cache meanwhile.
OverlapSpec == OverlapInit /\ [][OverlapNext]_vars

(* ------------------------------ claims --------------------------------- *)

BatchReturned == entry = "batchCheckLinks" /\ pc = "returned"

Aborted == externalSignal = "aborted"

QueueIds == { queue[i].id : i \in 1 .. Len(queue) }

\* What readCache returned at the start of the run.
Snapshot == readCache(storage0)

ForceRefresh == OptOr(options, "forceRefresh", FALSE)

\* The targets whose check has run to its end and was recorded by a worker.
CheckedIds == DOMAIN resultsById \cap networked

\* C1: checkLinkHealth resolves with "ok" or "dead" for every URL and every
\* outcome of its sub-attempts: the returned status, and the status of every
\* settled check (called directly or by a batch worker), is never "unknown"
\* and never an exception.
C1_CheckResolvesOkOrDead ==
    /\ (entry = "checkLinkHealth" /\ pc = "returned") => ret \in {"ok", "dead"}
    /\ \A s \in Slots :
         chk[s].phase \in {"resolved", "returned"} => chk[s].result \in {"ok", "dead"}

\* C1 witness: a direct call has gone through the API call, HEAD and GET and
\* returned "dead" without any abort.
C1_Witness ==
    /\ entry = "checkLinkHealth"
    /\ pc = "returned"
    /\ externalSignal # "aborted"
    /\ chk[0].reqs = [api |-> 1, head |-> 1, get |-> 1]
    /\ ret = "dead"

C3_OneProgressCallPerTarget ==
    (BatchReturned /\ ~Aborted) => Len(progress) = Len(bookmarks)

\* C3 amended: a completed run calls onProgress once for all invalid and
\* cached targets together and once per queued target, 1 + queue.length calls
\* in all, and issues network requests for the queued targets only (one call
\* and no request when every target is served from the cache).
C3_ProgressCalls ==
    (BatchReturned /\ ~Aborted) =>
        /\ Len(progress) = 1 + Len(queue)
        /\ networked = QueueIds

\* C3 witness: a completed run of two or more targets, all served from the
\* cache: one progress call, no network request.
C3_Witness ==
    /\ BatchReturned
    /\ ~Aborted
    /\ Len(bookmarks) >= 2
    /\ \A i \in 1 .. Len(bookmarks) : normalizeUrl(bookmarks[i].url) \in DOMAIN Snapshot
    /\ queue = <<>>
    /\ progress = <<Len(bookmarks)>>
    /\ networked = {}

\* C4: the processed values reported to onProgress are strictly increasing
\* and never exceed total, and in a completed run the last one is total.
C4_ProgressMonotone ==
    entry = "batchCheckLinks" =>
        /\ \A k \in 1 .. Len(progress) :
             /\ progress[k] <= Len(bookmarks)
             /\ k > 1 => progress[k - 1] < progress[k]
        /\ (BatchReturned /\ ~Aborted) =>
             /\ Len(progress) >= 1
             /\ progress[Len(progress)] = Len(bookmarks)

\* C4 witness: a completed run that reported a nonzero initial count and
\* then two more.
C4_Witness ==
    /\ BatchReturned
    /\ ~Aborted
    /\ Len(progress) >= 3
    /\ progress[1] >= 1

\* C5: in a completed run a valid-URL target is checked over the network iff
\* forceRefresh is set, the cache read at the start holds no entry for its
\* normalized URL, or that entry is older than cacheTtlMs at run start;
\* otherwise its result is the cached status.
C5_NetworkIffNotFresh ==
    (BatchReturned /\ ~Aborted) =>
        \A i \in 1 .. Len(bookmarks) :
            LET b == bookmarks[i]
                n == normalizeUrl(b.url)
                stale == \/ ForceRefresh
                         \/ n \notin DOMAIN Snapshot
                         \/ now - Snapshot[n].checkedAt > options.cacheTtlMs
            IN  n # null =>
                  /\ b.id \in networked <=> stale
                  /\ ~stale => results[i].status = Snapshot[n].status

\* C5 witness: a completed run with a target served from an entry exactly
\* cacheTtlMs old, and another target checked over the network.
C5_Witness ==
    /\ BatchReturned
    /\ ~Aborted
    /\ \E i \in 1 .. Len(bookmarks) :
         LET n == normalizeUrl(bookmarks[i].url) IN
         /\ n \in DOMAIN Snapshot
         /\ now - Snapshot[n].checkedAt = options.cacheTtlMs
         /\ bookmarks[i].id \notin networked
         /\ results[i].status = Snapshot[n].status
    /\ networked # {}

\* C6: writeCache is called exactly once in a run whose signal has not fired,
\* after every worker has finished, and the store holds the cache map from
\* then on (unless setItem threw); in a run whose signal has fired it is
\* never called and the store stays as it was.
C6_PersistOnceAfterWorkers ==
    entry = "batchCheckLinks" =>
        /\ writes <= 1
        /\ writes = 1 =>
             /\ pc = "returned"
             /\ ~Aborted
             /\ \A w \in DOMAIN workers : workers[w] = "done"
        /\ pc # "returned" => storage = storage0
        /\ (BatchReturned /\ ~Aborted) =>
             /\ writes = 1
             /\ storage \in {storage0, [raw |-> "json", map |-> cache]}
        /\ (BatchReturned /\ Aborted) => writes = 0 /\ storage = storage0

\* C6 witness: an aborted run has returned; a check that completed with "ok"
\* before the abort is not in the store.
C6_Witness ==
    /\ BatchReturned
    /\ Aborted
    /\ writes = 0
    /\ \E id \in DOMAIN atAbort.resultsById \cap networked :
         /\ atAbort.resultsById[id].status = "ok"
         /\ atAbort.resultsById[id].url \notin DOMAIN readCache(storage)

\* C7 as stated: once a check has completed, its entry is in the persistent
\* store.
C7_PersistedAfterEachCheck ==
    entry = "batchCheckLinks" =>
        \A id \in CheckedIds :
            /\ storage.raw = "json"
            /\ resultsById[id].url \in DOMAIN storage.map
            /\ storage.map[resultsById[id].url] = cache[resultsById[id].url]

\* C7 amended: once a check has completed, its entry is in the in-memory cache
\* map; the persistent store is not written before the run returns.
C7_CacheMapThenPersistAtEnd ==
    entry = "batchCheckLinks" =>
        /\ \A id \in CheckedIds :
             LET u == resultsById[id].url IN
             /\ u \in DOMAIN cache
             /\ cache[u].checkedAt >= now
             /\ \E id2 \in CheckedIds :
                  /\ resultsById[id2].url = u
                  /\ resultsById[id2].status = cache[u].status
        /\ pc # "returned" => storage = storage0

\* C7 witness: mid-run, a check has completed with "ok", another is still in
\* flight, and the store knows nothing of the completed one.
C7_Witness ==
    /\ entry = "batchCheckLinks"
    /\ pc = "running"
    /\ \E s \in Slots : chk[s].phase \in InFlightPhases
    /\ \E id \in CheckedIds :
         /\ resultsById[id].status = "ok"
         /\ cache[resultsById[id].url].status = "ok"
         /\ resultsById[id].url \notin DOMAIN readCache(storage)

\* C8: after an abort, a target whose check completed before the abort carries
\* the status recorded then, and every queued target whose check had not
\* completed (in flight, or never claimed) is returned "dead".
C8_AbortKeepsCompletedDeadRest ==
    (BatchReturned /\ Aborted) =>
        \A i \in 1 .. Len(bookmarks) :
            LET id == bookmarks[i].id IN
            /\ id \in DOMAIN atAbort.resultsById => results[i] = atAbort.resultsById[id]
            /\ id \in QueueIds \ DOMAIN atAbort.resultsById => results[i].status = "dead"

\* C8 witness: an aborted run with a check completed "ok" before the abort,
\* a check in flight at the abort and a queued target no worker claimed.
C8_Witness ==
    /\ BatchReturned
    /\ Aborted
    /\ \E id \in DOMAIN atAbort.resultsById \cap QueueIds :
         atAbort.resultsById[id].status = "ok"
    /\ \E id \in QueueIds : id \in DOMAIN resultsById \ DOMAIN atAbort.resultsById
    /\ \E id \in QueueIds : id \notin DOMAIN resultsById

\* C9 as stated: a check ended by the external abort is not recorded: no
\* result is stored for its target and no entry is written for its URL into
\* the cache map.
C9_AbortedCheckNotRecorded ==
    (entry = "batchCheckLinks" /\ Aborted) =>
        /\ \A id \in QueueIds \ DOMAIN atAbort.resultsById : id \notin DOMAIN resultsById
        /\ cache = atAbort.cache

\* C10 as stated: when an aborted run returns, the last processed value
\* reported to onProgress is total.
C10_AbortedRunReportsTotal ==
    (BatchReturned /\ Aborted) =>
        /\ Len(progress) >= 1
        /\ progress[Len(progress)] = Len(bookmarks)

\* The inputs the URL parser rejects: empty or white space only, no host that
\* parses even behind "https://", or a scheme other than http(s).
Rejected(rawUrl) ==
    \/ Trim(rawUrl) = null
    \/ rawUrl.host \notin GoodHosts
    \/ rawUrl.scheme \notin {"", "http:", "https:"}

\* C11: for a rejected URL checkLinkHealth resolves "dead" and issues no
\* request (no API call, no HEAD, no GET); in a batch such a target is
\* resolved "dead" by the partition, is never queued, never fetched, and
\* neither the cache map nor the store gets an entry for it.
C11_InvalidUrlDeadNoRequest ==
    /\ (entry = "checkLinkHealth" /\ Rejected(url)) =>
         /\ chk[0].reqs = NoRequests
         /\ networked = {}
         /\ pc = "checking" => chk[0].phase = "resolved" /\ chk[0].result = "dead"
         /\ pc = "returned" => ret = "dead"
    /\ (entry = "batchCheckLinks" /\ pc # "idle") =>
         \A i \in 1 .. Len(bookmarks) :
            Rejected(bookmarks[i].url) =>
              /\ bookmarks[i].id \in DOMAIN resultsById
              /\ resultsById[bookmarks[i].id].status = "dead"
              /\ bookmarks[i].id \notin QueueIds
              /\ bookmarks[i].id \notin networked
              /\ DOMAIN cache \cap {null, bookmarks[i].url, PrefixHttps(bookmarks[i].url)} = {}
              /\ DOMAIN readCache(storage) \cap
                   {null, bookmarks[i].url, PrefixHttps(bookmarks[i].url)} = {}
              /\ pc = "returned" => results[i].status = "dead"

\* C11 witness: a completed run with a rejected target has fetched its other
\* targets and stored the cache map.
C11_Witness ==
    /\ BatchReturned
    /\ ~Aborted
    /\ \E i \in 1 .. Len(bookmarks) : Rejected(bookmarks[i].url)
    /\ networked # {}
    /\ writes = 1
    /\ storage = [raw |-> "json", map |-> cache]
    /\ cache # EmptyMap

\* C12: every status in the array batchCheckLinks returns, and every status
\* in the store at any time in any sequence of runs, is "ok" or "dead".
C12_OnlyOkOrDead ==
    /\ BatchReturned => \A i \in 1 .. Len(results) : results[i].status \in {"ok", "dead"}
    /\ \A u \in DOMAIN readCache(storage) : readCache(storage)[u].status \in {"ok", "dead"}
    /\ \A u \in DOMAIN cache : cache[u].status \in {"ok", "dead"}

\* C12 witness: a later run has returned "ok" for a target from the entry an
\* earlier run stored (no store holds that URL before the first run), without
\* fetching it.
C12_Witness ==
    /\ BatchReturned
    /\ \E i \in 1 .. Len(bookmarks) :
         /\ bookmarks[i].url = UrlB
         /\ UrlB \in DOMAIN readCache(storage0)
         /\ readCache(storage0)[UrlB].status = "ok"
         /\ bookmarks[i].id \notin networked
         /\ results[i].status = "ok"

\* The classification the specification tabulates for an HTTP status.
StatusTable(status) ==
    IF status \in {404, 410, 401, 403} THEN "dead"
    ELSE IF status >= 500 THEN "dead"
    ELSE IF status >= 200 /\ status <= 399 THEN "ok"
    ELSE "unknown"

\* C13: whatever response the client's classifyResponse or the server's
\* classifyStatus has classified, the classification is the one of the
\* table for its status (404, 410, 401, 403, >= 500: dead; 200..399: ok;
\* else unknown), and "unknown" for an opaque response on the client.
C13_SameClassification ==
    /\ srv.head.kind = "response" => srv.head.classified = StatusTable(srv.head.status)
    /\ srv.get.kind = "response" => srv.get.classified = StatusTable(srv.get.status)
    /\ seen.head.kind = "response" =>
         seen.head.classified = IF seen.head.resp.type = "opaque" THEN "unknown"
                                ELSE StatusTable(seen.head.resp.status)
    /\ seen.get.kind = "response" =>
         seen.get.classified = IF seen.get.resp.type = "opaque" THEN "unknown"
                               ELSE StatusTable(seen.get.resp.status)

\* C13 witness: the server has classified a HEAD 405 "unknown" and the GET
\* 401 that followed "dead".
C13_Witness ==
    /\ srv.pc = "responded"
    /\ srv.head.kind = "response" /\ srv.head.status = 405
    /\ srv.head.classified = "unknown"
    /\ srv.get.kind = "response" /\ srv.get.status = 401
    /\ srv.get.classified = "dead"

\* C14: in tcp/ping mode only the TCP probe runs; in http mode only the HTTP
\* chain runs; in auto mode the HTTP chain runs first, an ok/dead result is
\* the response, and the TCP probe runs only after an unknown HTTP result,
\* its result being the response with the HTTP result as httpFallback.
C14_ModeDispatch ==
    (srv.pc # "idle" /\ srv.code # 400) =>
        /\ srv.mode \in {"tcp", "ping"} =>
             /\ srv.reqs.head = 0 /\ srv.reqs.get = 0 /\ srv.http = NoResult
             /\ srv.reqs.tcp = 1
             /\ srv.pc = "responded" =>
                  /\ srv.body.status = srv.tcp.status
                  /\ srv.body.mode = "tcp"
                  /\ srv.body.httpFallback = NoResult
        /\ srv.mode = "http" =>
             /\ srv.reqs.head = 1 /\ srv.reqs.tcp = 0 /\ srv.tcp = NoProbe
             /\ srv.pc = "responded" =>
                  /\ srv.body.status = srv.http.status
                  /\ srv.body.httpFallback = NoResult
        /\ srv.mode = "auto" =>
             /\ srv.reqs.head = 1
             /\ srv.reqs.tcp <= 1
             /\ srv.reqs.tcp = 1 => srv.http.status = "unknown"
             /\ srv.pc = "responded" =>
                  IF srv.http.status \in {"ok", "dead"}
                  THEN /\ srv.reqs.tcp = 0
                       /\ srv.body.status = srv.http.status
                       /\ srv.body.httpFallback = NoResult
                  ELSE /\ srv.http.status = "unknown"
                       /\ srv.reqs.tcp = 1
                       /\ srv.body.status = srv.tcp.status
                       /\ srv.body.httpFallback = srv.http

\* C14 witness: in auto mode the HTTP chain ended "unknown", the TCP probe
\* connected, and the response is "ok" with the HTTP result attached.
C14_Witness ==
    /\ srv.pc = "responded"
    /\ srv.mode = "auto"
    /\ srv.http.status = "unknown"
    /\ srv.reqs = [head |-> 1, get |-> 1, tcp |-> 1]
    /\ srv.body.status = "ok"
    /\ srv.body.httpFallback.status = "unknown"

\* C15: the effective timeout is the requested timeoutMs when that is a
\* finite positive number and 6000 otherwise; the HTTP chain runs with it,
\* every TCP probe with min(effective, 3000).
C15_Timeouts ==
    (srv.pc # "idle" /\ srv.code # 400) =>
        LET requested == query.timeoutMs
            effective == IF requested.kind = "numeral" /\ requested.n > 0
                         THEN requested.n ELSE 6000
        IN  /\ srv.timeoutMs = effective
            /\ srv.reqs.head > 0 => srv.httpTimeoutMs = effective
            /\ srv.reqs.tcp > 0 =>
                 /\ srv.tcpTimeoutMs = (IF effective < 3000 THEN effective ELSE 3000)
                 /\ srv.tcpTimeoutMs <= 3000
            /\ srv.reqs.tcp = 0 => srv.tcpTimeoutMs = 0

\* C15 witness: a request for 10000 ms in auto mode has run its HTTP chain
\* with 10000 ms and its TCP probe with 3000 ms.
C15_Witness ==
    /\ srv.pc = "responded"
    /\ query.timeoutMs = [kind |-> "numeral", n |-> 10000]
    /\ srv.mode = "auto"
    /\ srv.httpTimeoutMs = 10000
    /\ srv.reqs.tcp = 1
    /\ srv.tcpTimeoutMs = 3000

\* C16: once checkLinkHealth or batchCheckLinks has been called, the call
\* eventually returns (the status, or the result array), whether or not the
\* signal fires, provided every fetch settles or is ended by its timer.
C16_EventuallyReturns ==
    (entry \in {"checkLinkHealth", "batchCheckLinks"} /\ pc # "idle") ~> (pc = "returned")

\* C16 witness: an aborted run has returned although a queued target was
\* never claimed and another check was in flight when the signal fired.
C16_Witness ==
    /\ BatchReturned
    /\ Aborted
    /\ \E id \in QueueIds : id \notin DOMAIN resultsById
    /\ \E id \in QueueIds : id \in DOMAIN resultsById \ DOMAIN atAbort.resultsById

DirectCall == entry = "checkLinkHealth"

\* The directly called check has settled.
Settled == DirectCall /\ chk[0].phase \in {"resolved", "returned"}

\* C17: in a link check of the client and of the server a GET goes out iff
\* the HEAD answered 405 or failed otherwise than by the abort signal (so not
\* after a HEAD classified ok/dead, another unknown status, or an abort); at
\* most one HEAD and one GET go out, the GET after the HEAD has ended.
C17_GetIffHead405OrFailed ==
    /\ \A s \in Slots :
         /\ chk[s].reqs.head <= 1
         /\ chk[s].reqs.get <= 1
         /\ chk[s].reqs.get = 1 => chk[s].reqs.head = 1 /\ chk[s].phase # "head"
    /\ DirectCall =>
         (chk[0].reqs.get = 1 <=>
            \/ seen.head.kind = "response" /\ seen.head.resp.status = 405
            \/ seen.head.kind = "error")
    /\ srv.reqs.head <= 1
    /\ srv.reqs.get <= 1
    /\ srv.reqs.get = 1 <=>
         \/ srv.head.kind = "response" /\ srv.head.status = 405
         \/ srv.head.kind = "error"

\* C17 witness: the client's HEAD failed with a network error, one GET
\* followed and the check returned "ok".
C17_Witness ==
    /\ DirectCall
    /\ pc = "returned"
    /\ seen.head.kind = "error"
    /\ chk[0].reqs = [api |-> 1, head |-> 1, get |-> 1]
    /\ ret = "ok"

\* C18: a HEAD classified ok/dead is the result, without GET; when a GET
\* response arrived the result is its classification (on the client "dead"
\* for "unknown"); a HEAD ended by the timeout gives "dead" on the client
\* and "unknown" on the server; the client returns "dead" for every other
\* unknown.
C18_ChainResult ==
    /\ Settled =>
         /\ (seen.head.kind = "response" /\ seen.head.classified \in {"ok", "dead"}) =>
              /\ chk[0].result = seen.head.classified
              /\ chk[0].reqs.head = 1 /\ chk[0].reqs.get = 0
         /\ seen.get.kind = "response" =>
              chk[0].result = IF seen.get.classified = "unknown" THEN "dead"
                              ELSE seen.get.classified
         /\ seen.head.kind = "abort" => chk[0].result = "dead" /\ chk[0].reqs.get = 0
         /\ (seen.head.kind = "response" /\ seen.head.classified = "unknown"
               /\ chk[0].reqs.get = 0) => chk[0].result = "dead"
         /\ seen.get.kind \in {"error", "abort"} => chk[0].result = "dead"
    /\ srv.http # NoResult =>
         /\ (srv.head.kind = "response" /\ srv.head.classified \in {"ok", "dead"}) =>
              /\ srv.http.status = srv.head.classified
              /\ srv.reqs.get = 0
         /\ srv.get.kind = "response" => srv.http.status = srv.get.classified
         /\ srv.head.kind = "abort" => srv.http.status = "unknown" /\ srv.reqs.get = 0

\* C18 witness: on the client HEAD 405 then GET 200 gave "ok".
C18_Witness ==
    /\ DirectCall
    /\ pc = "returned"
    /\ seen.head.kind = "response" /\ seen.head.resp.status = 405
    /\ seen.get.kind = "response" /\ seen.get.resp.status = 200
    /\ chk[0].reqs = [api |-> 1, head |-> 1, get |-> 1]
    /\ ret = "ok"

\* The server answered the API call with a definite status.
Definite ==
    seen.api.kind = "response" /\ seen.api.ok /\ seen.api.body \in {"ok", "dead"}

\* C19 as stated: once the API call of a check has ended, a direct request
\* has gone out iff the call produced no definite status (stated for the
\* checks the caller did not abort).
C19_DirectIffNoDefinite ==
    (Settled /\ chk[0].reqs.api = 1 /\ externalSignal # "aborted") =>
        (chk[0].reqs.head = 1 <=> ~Definite)

\* C19 amended: the server is called first, in auto mode, with
\* min(timeoutMs, 4500); a direct request goes out iff that call produced no
\* definite status and the check's own signal (its timeoutMs timer or the
\* caller's abort) has not fired; a definite status is returned without any
\* direct request.
C19_ApiFirstThenDirect ==
    (DirectCall /\ ~Rejected(url)) =>
        LET requested == IF "timeoutMs" \in DOMAIN options THEN options.timeoutMs ELSE 8000
            reqs == chk[0].reqs
        IN  /\ reqs.api <= 1
            /\ reqs.api = 0 => reqs.head = 0 /\ reqs.get = 0
            /\ reqs.api = 1 =>
                 seen.request = [url |-> UrlToString(IF url.scheme = "" THEN PrefixHttps(url)
                                                     ELSE url),
                                 mode |-> "auto",
                                 timeoutMs |-> IF requested < 4500 THEN requested ELSE 4500]
            /\ chk[0].phase = "api" => reqs.head = 0 /\ reqs.get = 0
            /\ seen.api.kind # "none" =>
                 (reqs.head = 1 <=> (~Definite /\ seen.api.kind # "abort"))
            /\ requested <= 4500 => seen.api.kind # "subtimeout"
            /\ (Settled /\ Definite) =>
                 /\ chk[0].result = seen.api.body
                 /\ reqs.head = 0 /\ reqs.get = 0

\* C19 witness: the API call ran into its sub-timeout, HEAD went out and the
\* check returned "ok".
C19_Witness ==
    /\ DirectCall
    /\ pc = "returned"
    /\ seen.api.kind = "subtimeout"
    /\ seen.request.timeoutMs = 4500
    /\ chk[0].reqs = [api |-> 1, head |-> 1, get |-> 0]
    /\ ret = "ok"

\* C20 as stated: a HEAD classified "unknown" is always followed by an
\* escalation before the check settles (the client makes no TCP probe, so
\* the escalation is the GET retry).
C20_UnknownAlwaysEscalated ==
    (Settled /\ seen.head.kind = "response" /\ seen.head.classified = "unknown") =>
        chk[0].reqs.get = 1

\* C20 amended: a HEAD classified "unknown" is escalated only when its
\* status is 405: one GET follows and the result is "ok" if the GET
\* classifies "ok", else "dead"; after any other unknown HEAD the check
\* returns "dead" at once, without GET.
C20_Only405Escalates ==
    (DirectCall /\ seen.head.kind = "response" /\ seen.head.classified = "unknown") =>
        IF seen.head.resp.status = 405
        THEN /\ chk[0].reqs.get = 1
             /\ Settled =>
                  chk[0].result = IF seen.get.kind = "response" /\ seen.get.classified = "ok"
                                  THEN "ok" ELSE "dead"
        ELSE /\ chk[0].reqs.get = 0
             /\ chk[0].phase \in {"resolved", "returned"}
             /\ chk[0].result = "dead"

\* C20 witness: HEAD answered 429 and the check returned "dead" without GET.
C20_Witness ==
    /\ DirectCall
    /\ pc = "returned"
    /\ seen.head.kind = "response" /\ seen.head.resp.status = 429
    /\ chk[0].reqs = [api |-> 1, head |-> 1, get |-> 0]
    /\ ret = "dead"

\* The checkLinkHealth calls of the workers that have been made and whose
\* worker has not resumed yet.
InFlightCalls == { s \in Slots \ {0} : chk[s].phase \in InFlightPhases \cup {"resolved"} }

\* C21: at every moment of a batch run at most
\* max(1, min(requested concurrency (default 20), number of targets))
\* checkLinkHealth calls are in flight, also for a requested 0 or negative
\* number.
C21_InFlightAtMostConcurrency ==
    entry = "batchCheckLinks" =>
        LET requested == IF "concurrency" \in DOMAIN options THEN options.concurrency ELSE 20
            lower == IF requested <= Len(bookmarks) THEN requested ELSE Len(bookmarks)
            effective == IF lower >= 1 THEN lower ELSE 1
        IN  Cardinality(InFlightCalls) <= effective

\* C21 witness: the caller asked for a negative concurrency; one call is in
\* flight while a queued target waits for the only worker.
C21_Witness ==
    /\ entry = "batchCheckLinks"
    /\ pc = "running"
    /\ "concurrency" \in DOMAIN options
    /\ options.concurrency < 0
    /\ Cardinality(InFlightCalls) = 1
    /\ Len(queue) >= 2
    /\ cursor = 1

\* C22 as stated: batchCheckLinks starts exactly min(concurrency,
\* queue.length) workers: none for the targets resolved as invalid or from the
\* cache, and none when the queue is empty.
C22_WorkersAsQueue ==
    (entry = "batchCheckLinks" /\ pc \in {"running", "returned"}) =>
        launched = (IF concurrency <= Len(queue) THEN concurrency ELSE Len(queue))

\* C23: under every interleaving of the workers no queue index is claimed
\* twice and no two calls in flight are for the same target; when a run
\* whose signal has not fired returns, every queue index has been claimed
\* exactly once and every queued target has been checked and recorded.
C23_EachIndexClaimedOnce ==
    entry = "batchCheckLinks" =>
        /\ \A i \in 1 .. Len(claimed), j \in 1 .. Len(claimed) :
             i # j => claimed[i] # claimed[j]
        /\ \A i \in 1 .. Len(claimed) : claimed[i] >= 0 /\ claimed[i] < Len(queue)
        /\ \A s \in InFlightCalls, t \in InFlightCalls : s # t => chk[s].id # chk[t].id
        /\ \A s \in InFlightCalls : chk[s].reqs.api <= 1
        /\ (pc = "returned" /\ externalSignal # "aborted") =>
             /\ Len(claimed) = Len(queue)
             /\ \A k \in 1 .. Len(queue) :
                  /\ \E i \in 1 .. Len(claimed) : claimed[i] = k - 1
                  /\ queue[k].id \in DOMAIN resultsById
                  /\ queue[k].id \in networked
             /\ processed = Len(bookmarks)

\* C23 witness: two workers have shared three queued targets and the run has
\* returned without an abort.
C23_Witness ==
    /\ entry = "batchCheckLinks"
    /\ pc = "returned"
    /\ externalSignal # "aborted"
    /\ concurrency = 2
    /\ claimed = <<0, 1, 2>>

\* C24: once the external signal has fired no worker claims a queue index
\* and no checkLinkHealth call is started (the cursor, the claimed indexes and
\* the targets fetched stay as they are, and no slot gets a new call); so a
\* run called with a signal that has fired already starts no check at all.
C24_NoClaimAfterAbort ==
    /\ [][externalSignal = "aborted" =>
            /\ claimed' = claimed
            /\ cursor' = cursor
            /\ networked' = networked
            /\ \A s \in Slots \ {0} :
                 chk'[s] # chk[s] => chk'[s] = IdleSlot]_vars
    /\ (externalSignal = "aborted") => [](claimed = <<>> /\ cursor = 0 /\ networked = {})

\* C24 witness: the signal fired in mid-run; the run has returned with part
\* of the queue claimed and the rest never claimed.
C24_Witness ==
    /\ entry = "batchCheckLinks"
    /\ pc = "returned"
    /\ externalSignal = "aborted"
    /\ Len(claimed) >= 1
    /\ Len(claimed) < Len(queue)
    /\ cursor = Len(claimed)

\* The targets the partition resolves without a check: the rejected URLs and
\* the URLs with an entry in the cache read at the start that is at most
\* cacheTtlMs old (none when forceRefresh is set).
ResolvedUpFront ==
    { i \in 1 .. Len(bookmarks) :
        \/ Rejected(bookmarks[i].url)
        \/ LET n == UrlToString(IF bookmarks[i].url.scheme = ""
                                THEN PrefixHttps(bookmarks[i].url) ELSE bookmarks[i].url)
           IN  /\ ~ForceRefresh
               /\ n \in DOMAIN Snapshot
               /\ now - Snapshot[n].checkedAt <= options.cacheTtlMs }

\* C25: the first onProgress call is made once, before any worker is started
\* and before any request, and reports the number of targets with a rejected
\* URL plus the number of cache hits; nothing is reported before the call of
\* batchCheckLinks has partitioned its targets.
C25_InitialProgressFirst ==
    entry = "batchCheckLinks" =>
        /\ pc = "idle" => progress = <<>>
        /\ pc # "idle" =>
             /\ Len(progress) >= 1
             /\ progress[1] = Cardinality(ResolvedUpFront)
        /\ (pc = "launching" /\ launched = 0) =>
             /\ Len(progress) = 1
             /\ networked = {}
             /\ claimed = <<>>
             /\ \A s \in Slots : chk[s] = IdleSlot
        /\ Len(progress) = 1 => processed = progress[1] /\ DOMAIN resultsById \cap networked = {}

\* C25 witness: the first call reported one rejected URL and one cache hit
\* together, and a worker has gone on to fetch a third target.
C25_Witness ==
    /\ entry = "batchCheckLinks"
    /\ pc = "running"
    /\ progress = <<2>>
    /\ \E i \in ResolvedUpFront : Rejected(bookmarks[i].url)
    /\ \E i \in ResolvedUpFront : ~Rejected(bookmarks[i].url)
    /\ networked # {}

\* C26 as stated: aborting either the caller's signal or the internal
\* controller aborts both: once the controller of a check called with a
\* signal has aborted an attempt, the caller's signal is aborted as well.
C26_EitherAbortsBoth ==
    (DirectCall /\ externalSignal # "none"
       /\ \E p \in InFlightPhases : seen[p].kind = "abort") =>
        externalSignal = "aborted"

\* C26 amended: the caller's abort aborts the internal controller, not the
\* other way round.  The step in which the caller's signal fires ends every
\* attempt in flight (API call, HEAD or GET) of every check, and none is in
\* flight afterwards; an attempt ended by the check's signal, whether the
\* caller or the check's own timer fired it, settles the check "dead"
\* without a further request; the timer leaves the caller's signal as it is.
C26_AbortPropagates ==
    /\ [](externalSignal = "aborted" => \A s \in Slots : chk[s].phase \notin InFlightPhases)
    /\ [](DirectCall =>
            /\ seen.api.kind = "abort" =>
                 /\ Settled /\ chk[0].result = "dead"
                 /\ chk[0].reqs.head = 0 /\ chk[0].reqs.get = 0
            /\ seen.head.kind = "abort" =>
                 /\ Settled /\ chk[0].result = "dead"
                 /\ chk[0].reqs.get = 0
            /\ seen.get.kind = "abort" => Settled /\ chk[0].result = "dead")
    /\ [][externalSignal' # externalSignal =>
            /\ externalSignal = "live" /\ externalSignal' = "aborted"
            /\ \A s \in Slots :
                 chk[s].phase \in InFlightPhases =>
                   chk'[s].phase = "resolved" /\ chk'[s].result = "dead"
                   /\ chk'[s].reqs = chk[s].reqs]_vars

\* C26 witness: the caller aborted while the GET of a direct call was in
\* flight; the GET ended with an AbortError and the check returned "dead".
C26_Witness ==
    /\ DirectCall
    /\ pc = "returned"
    /\ externalSignal = "aborted"
    /\ seen.get.kind = "abort"
    /\ chk[0].reqs = [api |-> 1, head |-> 1, get |-> 1]
    /\ ret = "dead"

\* The TCP probe of the request has returned.
Probed == srv.tcp # NoProbe

\* C27: the TCP probe resolves the host name before it connects; a lookup
\* that fails with ENOTFOUND or EAI_AGAIN gives dead/dns without a connect
\* attempt; a connect that succeeds gives ok with the port (the explicit
\* one, else 443 for https and 80 for http); a socket timeout gives
\* dead/timeout; every other error gives dead; the probe never gives
\* "unknown" and never throws (the handler answers 200 with its result).
C27_TcpProbe ==
    /\ srv.probe.lookups <= 1 /\ srv.probe.connects <= 1
    /\ srv.probe.lookups = srv.reqs.tcp
    /\ srv.probe.connects = 1 => srv.probe.lookup = "resolved"
    /\ srv.probe.lookup \in {"ENOTFOUND", "EAI_AGAIN"} =>
         /\ srv.probe.connects = 0
         /\ srv.tcp.status = "dead" /\ srv.tcp.error = "dns"
    /\ srv.probe.lookup = "EAI_FAIL" => srv.probe.connects = 0 /\ srv.tcp.status = "dead"
    /\ srv.probe.connect = "connected" =>
         /\ srv.tcp.status = "ok"
         /\ srv.tcp.port = (IF query.url.host = "c.example:8080" THEN 8080
                            ELSE IF query.url.scheme = "http:" THEN 80 ELSE 443)
    /\ srv.probe.connect = "timeout" => srv.tcp.status = "dead" /\ srv.tcp.error = "timeout"
    /\ srv.probe.connect \in {"ECONNREFUSED", "ENOTFOUND"} => srv.tcp.status = "dead"
    /\ srv.tcp.status \in {"none", "ok", "dead"}
    /\ (srv.probe.lookup \notin {"none", "resolved"} \/ srv.probe.connect # "none") =>
         /\ Probed
         /\ srv.pc = "responded" /\ srv.code = 200
         /\ srv.body.status = srv.tcp.status
    /\ Probed => srv.probe.lookup # "none"

\* C27 witness: in tcp mode the probe of "http://c.example:8080/" connected
\* and the response is "ok" with port 8080.
C27_Witness ==
    /\ srv.pc = "responded"
    /\ srv.mode = "tcp"
    /\ query.url = PortUrl
    /\ srv.probe = [port |-> 8080, lookups |-> 1, connects |-> 1,
                    lookup |-> "resolved", connect |-> "connected"]
    /\ srv.tcp = [status |-> "ok", error |-> "", port |-> 8080]

\* C28: in every mode but http (auto, any mode value the handler does not
\* know, which it treats as auto, and tcp/ping) the status of the response is
\* "ok" or "dead"; "unknown" is the status only in http mode, and otherwise
\* appears only as the status of httpFallback.
C28_UnknownOnlyInHttpMode ==
    (srv.pc = "responded" /\ srv.code = 200) =>
        /\ srv.mode # "http" => srv.body.status \in {"ok", "dead"}
        /\ srv.body.status \in {"ok", "dead", "unknown"}
        /\ srv.mode \notin {"http", "tcp", "ping"} =>
             /\ srv.body.mode = "auto"
             /\ srv.body.httpFallback # NoResult =>
                  /\ srv.body.httpFallback.status = "unknown"
                  /\ srv.body.status = srv.tcp.status
             /\ srv.http.status = "unknown" => srv.body.httpFallback = srv.http
        /\ srv.mode \in {"http", "tcp", "ping"} => srv.body.httpFallback = NoResult

\* C28 witness: a request with the mode "fast" was handled as auto: HEAD
\* answered 429, the probe found the name unresolvable, and the response is
\* "dead" with the "unknown" HTTP result as httpFallback.
C28_Witness ==
    /\ srv.pc = "responded"
    /\ query.mode = "fast"
    /\ srv.head.kind = "response" /\ srv.head.status = 429
    /\ srv.probe.lookup = "ENOTFOUND"
    /\ srv.body.mode = "auto"
    /\ srv.body.status = "dead"
    /\ srv.body.httpFallback.status = "unknown"

\* The store as it was before this run's writeCache.
PriorStore == IF overlap = NoStore THEN storage0 ELSE overlap

\* The URLs this run has checked.
CheckedUrls == { resultsById[id].url : id \in CheckedIds }

\* C29: when a run whose signal has not fired has returned (and setItem did
\* not throw), the store holds the map read at the start of the run with the
\* entry of every URL checked in the run replaced by the status and time of
\* a check of this run, every other entry as it was read (stale entries, cache
\* hits and URLs of no bookmark included) and nothing else: what an
\* overlapping run stored after this run's read is overwritten.
C29_SnapshotPlusChecked ==
    (BatchReturned /\ ~Aborted) =>
        /\ writes = 1
        /\ \/ storage = PriorStore
           \/ /\ storage.raw = "json"
              /\ DOMAIN storage.map = DOMAIN Snapshot \cup CheckedUrls
              /\ \A u \in DOMAIN storage.map :
                   IF u \in CheckedUrls
                   THEN /\ storage.map[u].checkedAt >= now
                        /\ storage.map[u].checkedAt <= clock
                        /\ \E id \in CheckedIds :
                             /\ resultsById[id].url = u
                             /\ storage.map[u].status = resultsById[id].status
                   ELSE storage.map[u] = Snapshot[u]

\* C29 witness: the run read an entry of a URL it has no bookmark for,
\* checked another URL, and returned after an overlapping run had stored an
\* entry of a third URL: the store holds the first entry as read and the new
\* entry of the second, and the third is gone.
C29_Witness ==
    /\ BatchReturned
    /\ ~Aborted
    /\ overlap # NoStore
    /\ storage # overlap
    /\ \E u \in DOMAIN overlap.map : u \notin DOMAIN readCache(storage)
    /\ \E u \in DOMAIN Snapshot :
         u \notin CheckedUrls /\ u \in DOMAIN readCache(storage) /\ storage.map[u] = Snapshot[u]
    /\ \E u \in CheckedUrls : u \in DOMAIN readCache(storage)

\* The bookmarks whose URL normalizes to u.
TargetsOf(u) ==
    { i \in 1 .. Len(bookmarks) :
        ~Rejected(bookmarks[i].url)
        /\ u = UrlToString(IF bookmarks[i].url.scheme = "" THEN PrefixHttps(bookmarks[i].url)
                           ELSE bookmarks[i].url) }

\* C30: a check that its own timer has ended resolves "dead"; its worker
\* records "dead" for the target, writes {dead, Date.now()} into the cache
\* map, counts it in processed and reports it; the entry is stored when a run
\* whose signal has not fired returns; and a later run that finds it at most
\* cacheTtlMs old (and is not forced to refresh) returns "dead" for the
\* targets of that URL without any request.
C30_TimeoutIsDead ==
    /\ [](\A s \in tmo.slots : chk[s].phase = "resolved" /\ chk[s].result = "dead")
    /\ [][\A w \in tmo.slots :
            (pc = "running" /\ w \notin tmo'.slots) =>
               /\ resultsById'[chk[w].id].status = "dead"
               /\ cache'[chk[w].url] = [status |-> "dead", checkedAt |-> clock]
               /\ processed' = processed + 1
               /\ progress' = Append(progress, processed + 1)
               /\ chk[w].url \in tmo'.cache]_vars
    /\ [](pc # "idle" =>
            \A u \in tmo.cache : u \in DOMAIN cache /\ cache[u].status = "dead")
    /\ [][(pc = "running" /\ pc' = "returned" /\ externalSignal # "aborted") =>
            /\ writes' = 1
            /\ storage' = storage \/ (storage'.raw = "json" /\ storage'.map = cache
                                        /\ tmo'.store = tmo.cache)]_vars
    /\ [](\A u \in tmo.store :
            /\ storage.raw = "json"
            /\ u \in DOMAIN storage.map
            /\ storage.map[u].status = "dead")
    /\ [](pc \in {"launching", "running"} =>
            \A u \in tmo.store :
               (~ForceRefresh /\ u \in DOMAIN Snapshot
                  /\ now - Snapshot[u].checkedAt <= options.cacheTtlMs) =>
                 \A i \in TargetsOf(u) :
                    /\ bookmarks[i].id \notin networked
                    /\ bookmarks[i].id \notin QueueIds
                    /\ resultsById[bookmarks[i].id].status = "dead")

\* C30 witness: a later run has returned "dead" for a target, without a
\* request, from the entry that a timed-out check of an earlier run left in
\* the store.
C30_Witness ==
    /\ BatchReturned
    /\ \E u \in tmo.store \cap DOMAIN Snapshot :
         \E i \in TargetsOf(u) :
            /\ bookmarks[i].id \notin networked
            /\ results[i].status = "dead"
            /\ Snapshot[u].status = "dead"

====
